---- MODULE Spec2Model ----
(***************************************************************************)
(* littleOS core kernel subsystems: segmented memory manager, task         *)
(* scheduler, watchdog facade + core-1 supervisor, log-structured          *)
(* filesystem, permissions.  Each subsystem has its own specifications     *)
(* (SpecMem, SpecCollision, SpecSched, SpecSchedIds, SpecSup, SpecSupStop, *)
(* SpecPerm, SpecFsRw, SpecFsCrash, SpecFsFault) over the shared variables.*)
(***************************************************************************)
EXTENDS Integers, Sequences, FiniteSets, TLC

VARIABLES
    \* segmented memory manager
    kernel_heap,       \* MemoryRegion: current, used_size, peak_size, allocation_count
    interpreter_heap,  \* MemoryRegion
    mem_last,          \* the last allocator call and what it returned
    mem_ops,           \* number of allocator calls and stack moves made so far
    cur_sp,            \* the stack pointer register stack_get_current_sp() reads
    \* task scheduler
    task_table,        \* task_table[0 .. task_count-1], as a sequence of descriptors
    next_id,           \* alloc_task_id's static next_id
    core0_queue,       \* task_queue_t: tasks (count = Len), current_index
    core1_queue,
    current_task_id,
    enum_signed,       \* whether the build gives task_priority_t a signed type
    sched_last,        \* the last scheduler call and what it returned
    sched_ops,         \* number of task_create calls made so far
    \* watchdog facade, hardware watchdog, supervisor
    now,               \* to_ms_since_boot(get_absolute_time()), a uint32_t
    hw_wdt,            \* the hardware watchdog: running, timeout, last_update
    wdt_state,         \* watchdog.c: enabled, timeout_ms, feed_count, last_feed_time_ms
    metrics,           \* supervisor.c: the shared system_metrics_t record
    sup,               \* supervisor.c statics and supervisor_loop locals
    core0,             \* core 0: hung, hang_since, ops (calls made so far)
    sup_last,          \* what the last health check computed
    reset,             \* the hardware watchdog has reset the chip
    ticks,             \* number of clock advances so far
    \* filesystem
    dev,               \* the block device: block address -> 512-byte block
    fs,                \* struct fs: sb, cp0, cp1, active_cp, nat, sit, counters, dirty flags
    g_fs_mounted,      \* cmd_fs.c: the shell's mounted flag
    fds,               \* the callers' struct fs_file handles
    faulty,            \* blocks on which the backend's read_block / write_block fail
    fs_last,           \* the last filesystem call and what it returned
    shadow,            \* per handle the path it was opened with, per path the bytes
                       \* written, per inode number the image stored last
    snap,              \* NAT, SIT, free count and file contents at the last checkpoint
    fs_ops,            \* number of filesystem steps made so far
    \* permissions
    sec_ctx,           \* task_sec_ctx_t: uid, gid, euid, egid, umask, capabilities
    resource,          \* resource_perm_t: perms, owner_uid, owner_gid, type, flags
    perm_last,         \* the last permission call and what it returned
    perm_ops,          \* number of permission calls made so far
    \* script evaluator bridge
    sage,              \* sage_embed.c: the context, the heartbeat statics, and
                       \* sage_eval_string's position and locals
    \* persistent configuration
    hc,                \* supervisor.c, statement by statement: where core 1
                       \* is in check_system_health and core 0 in
                       \* supervisor_heartbeat, and their locals
    cfg                \* config_storage.c: config_data, config_initialized,
                       \* config_dirty; flash: the record as it reads back at
                       \* XIP_BASE + FLASH_TARGET_OFFSET; track: the last
                       \* call and the set/save/load sequence it is part of

memVars   == <<kernel_heap, interpreter_heap, mem_last, mem_ops, cur_sp>>
schedVars == <<task_table, next_id, core0_queue, core1_queue, current_task_id,
               enum_signed, sched_last, sched_ops>>

supVars   == <<now, hw_wdt, wdt_state, metrics, sup, core0, sup_last, reset, ticks>>

fsVars    == <<dev, fs, g_fs_mounted, fds, faulty, fs_last, shadow, snap, fs_ops>>

permVars  == <<sec_ctx, resource, perm_last, perm_ops>>

sageVars  == <<sage>>
cfgVars   == <<cfg, hc>>

vars == <<memVars, schedVars, supVars, fsVars, permVars, sageVars, cfgVars>>

nonMemVars   == <<schedVars, supVars, fsVars, permVars, sageVars, cfgVars>>
nonSchedVars == <<memVars, supVars, fsVars, permVars, sageVars, cfgVars>>
nonSupVars   == <<memVars, schedVars, fsVars, permVars, sageVars, cfgVars>>
nonFsVars    == <<memVars, schedVars, supVars, permVars, sageVars, cfgVars>>
nonPermVars  == <<memVars, schedVars, supVars, fsVars, sageVars, cfgVars>>
nonCfgVars   == <<memVars, schedVars, supVars, fsVars, permVars, sageVars>>

(***************************************************************************)
(* 32-bit machine words.  TLC integers are 32-bit signed, so a uint32_t /  *)
(* size_t / pointer is kept as two 16-bit limbs <<hi, lo>>; the arithmetic *)
(* below is exact arithmetic modulo 2^32.                                  *)
(***************************************************************************)
W16 == 2^16

\* the uint32 with value n, for 0 <= n < 2^31
U32(n) == <<n \div W16, n % W16>>

\* unsigned a + b (mod 2^32)
Add32(a, b) ==
    LET s == a[2] + b[2]
    IN  <<(a[1] + b[1] + (s \div W16)) % W16, s % W16>>

\* TRUE iff a + b does not fit in 32 bits
Carry32(a, b) == a[1] + b[1] + ((a[2] + b[2]) \div W16) >= W16

\* unsigned a - b (mod 2^32)
Sub32(a, b) ==
    LET d == a[2] - b[2]
        borrow == IF d < 0 THEN 1 ELSE 0
    IN  <<(a[1] - b[1] - borrow + W16) % W16, (d + W16) % W16>>

Lt32(a, b) == a[1] < b[1] \/ (a[1] = b[1] /\ a[2] < b[2])
Gt32(a, b) == Lt32(b, a)
Le32(a, b) == ~Lt32(b, a)
Ge32(a, b) == ~Lt32(a, b)

\* unsigned a * b (mod 2^32), by 8/16-bit partial products
Mul32(a, b) ==
    LET a0  == a[2] % 256
        a1  == a[2] \div 256
        p0  == a0 * b[2]                      \* weight 1
        p1  == a1 * b[2]                      \* weight 2^8
        lo0 == p0 % W16
        hi0 == p0 \div W16
        lo1 == (p1 % 256) * 256
        hi1 == p1 \div 256
        los == lo0 + lo1
        x0  == (a[2] % 256) * b[1] + (a[2] \div 256) * (b[1] % 256) * 256
        x1  == (a[1] % 256) * b[2] + (a[1] \div 256) * (b[2] % 256) * 256
    IN  <<(hi0 + hi1 + (los \div W16) + x0 + x1) % W16, los % W16>>

\* (size + 7) & ~7 on a 32-bit size_t
AlignUp8(size) ==
    LET s == Add32(size, U32(7))
    IN  <<s[1], s[2] - (s[2] % 8)>>

(***************************************************************************)
(* Segmented memory manager (src/kernel/memory_segmented.c)                *)
(***************************************************************************)
NULL32 == U32(0)

KERNEL_HEAP_BASE      == <<8192, 0>>                        \* 0x20000000
KERNEL_HEAP_SIZE      == U32(64 * 1024)
KERNEL_HEAP_END       == Add32(KERNEL_HEAP_BASE, KERNEL_HEAP_SIZE)
INTERPRETER_HEAP_BASE == KERNEL_HEAP_END
INTERPRETER_HEAP_SIZE == U32(64 * 1024)
INTERPRETER_HEAP_END  == Add32(INTERPRETER_HEAP_BASE, INTERPRETER_HEAP_SIZE)
STACK_BASE            == INTERPRETER_HEAP_END
STACK_SIZE            == U32(128 * 1024)
STACK_TOP             == Add32(STACK_BASE, STACK_SIZE)

\* bound: number of allocator calls explored in one behaviour
MaxMemOps == 4

\* requested sizes: zero, tiny, 24 KiB, the whole region, one byte more,
\* and sizes near 2^32 (0xFFFFFFF8, 0xFFFFFFFF)
AllocSizes ==
    { U32(0), U32(1), U32(24576), U32(65536), U32(65537),
      <<65535, 65528>>, <<65535, 65535>> }

\* (count, size) pairs for the zeroed allocators: 3*8, 65537*65537 (wraps to
\* 131073), 2*0x80000000 (wraps to 0), 0x20000001*8 (wraps to 8)
CallocArgs ==
    { <<U32(3), U32(8)>>, <<<<1, 1>>, <<1, 1>>>>, <<U32(2), <<32768, 0>>>>,
      <<<<8192, 1>>, U32(8)>> }


MemRegionInit(base) ==
    [current |-> base, used_size |-> U32(0), peak_size |-> U32(0),
     allocation_count |-> 0]

MemInit ==
    /\ kernel_heap = MemRegionInit(KERNEL_HEAP_BASE)
    /\ interpreter_heap = MemRegionInit(INTERPRETER_HEAP_BASE)
    /\ mem_last = [op |-> "none", ret |-> NULL32, size |-> U32(0), args |-> <<>>]
    /\ mem_ops = 0
    /\ cur_sp = STACK_TOP

\* The body shared by kernel_malloc and interpreter_malloc on region h with
\* end address `end`.  `current + size` is pointer arithmetic: when the sum
\* leaves the 32-bit address space the behaviour is undefined, and `ub_fails`
\* chooses whether the out-of-memory test then fires or sees the wrapped sum.
\* Result: [ptr, heap].
bump_malloc(h, end, size, ub_fails) ==
    IF size = U32(0) THEN [ptr |-> NULL32, heap |-> h]
    ELSE
      LET asz     == AlignUp8(size)
          sum     == Add32(h.current, asz)
          wraps   == Carry32(h.current, asz)
          too_big == IF wraps THEN ub_fails ELSE Gt32(sum, end)
      IN  IF too_big THEN [ptr |-> NULL32, heap |-> h]
          ELSE
            LET used == Add32(h.used_size, asz)
            IN  [ptr  |-> h.current,
                 heap |-> [current          |-> sum,
                           used_size        |-> used,
                           allocation_count |-> h.allocation_count + 1,
                           peak_size        |-> IF Gt32(used, h.peak_size)
                                                THEN used ELSE h.peak_size]]

kernel_malloc(size, ub_fails) ==
    bump_malloc(kernel_heap, KERNEL_HEAP_END, size, ub_fails)

\* interpreter_malloc with the region's end 8 bytes early
interpreter_malloc_short(size, ub_fails) ==
    bump_malloc(interpreter_heap, Sub32(INTERPRETER_HEAP_END, U32(8)), size, ub_fails)

interpreter_malloc(size, ub_fails) ==
    bump_malloc(interpreter_heap, INTERPRETER_HEAP_END, size, ub_fails)

\* total = count * size in size_t, then the plain allocator
kernel_calloc(count, size, ub_fails) ==
    kernel_malloc(Mul32(count, size), ub_fails)

interpreter_calloc(count, size, ub_fails) ==
    interpreter_malloc(Mul32(count, size), ub_fails)

KernelMalloc ==
    /\ mem_ops < MaxMemOps
    /\ \E size \in AllocSizes, ub \in BOOLEAN :
         LET res == kernel_malloc(size, ub)
         IN  /\ kernel_heap' = res.heap
             /\ mem_last' = [op |-> "kernel_malloc", ret |-> res.ptr, size |-> size,
                             args |-> <<size>>]
    /\ mem_ops' = mem_ops + 1
    /\ UNCHANGED <<interpreter_heap, cur_sp, nonMemVars>>

KernelCalloc ==
    /\ mem_ops < MaxMemOps
    /\ \E a \in CallocArgs, ub \in BOOLEAN :
         LET res == kernel_calloc(a[1], a[2], ub)
         IN  /\ kernel_heap' = res.heap
             /\ mem_last' = [op |-> "kernel_calloc", ret |-> res.ptr,
                             size |-> Mul32(a[1], a[2]), args |-> a]
    /\ mem_ops' = mem_ops + 1
    /\ UNCHANGED <<interpreter_heap, cur_sp, nonMemVars>>

InterpreterMalloc ==
    /\ mem_ops < MaxMemOps
    /\ \E size \in AllocSizes, ub \in BOOLEAN :
         LET res == interpreter_malloc(size, ub)
         IN  /\ interpreter_heap' = res.heap
             /\ mem_last' = [op |-> "interpreter_malloc", ret |-> res.ptr, size |-> size,
                             args |-> <<size>>]
    /\ mem_ops' = mem_ops + 1
    /\ UNCHANGED <<kernel_heap, cur_sp, nonMemVars>>

InterpreterCalloc ==
    /\ mem_ops < MaxMemOps
    /\ \E a \in CallocArgs, ub \in BOOLEAN :
         LET res == interpreter_calloc(a[1], a[2], ub)
         IN  /\ interpreter_heap' = res.heap
             /\ mem_last' = [op |-> "interpreter_calloc", ret |-> res.ptr,
                             size |-> Mul32(a[1], a[2]), args |-> a]
    /\ mem_ops' = mem_ops + 1
    /\ UNCHANGED <<kernel_heap, cur_sp, nonMemVars>>

\* interpreter_heap_remaining(): end - current
interpreter_heap_remaining == Sub32(INTERPRETER_HEAP_END, interpreter_heap.current)

\* interpreter_malloc of what interpreter_heap_remaining() returns, and of one
\* byte more
InterpreterMallocRemaining ==
    /\ mem_ops < MaxMemOps
    /\ \E extra \in {0, 1}, ub \in BOOLEAN :
         LET size == Add32(interpreter_heap_remaining, U32(extra))
             res  == interpreter_malloc(size, ub)
         IN  /\ interpreter_heap' = res.heap
             /\ mem_last' = [op |-> "interpreter_malloc", ret |-> res.ptr, size |-> size,
                             args |-> <<size>>]
    /\ mem_ops' = mem_ops + 1
    /\ UNCHANGED <<kernel_heap, cur_sp, nonMemVars>>

\* a reset that clears the counters and leaves the bump pointer where it is
interpreter_heap_reset_counters_only ==
    [interpreter_heap EXCEPT !.used_size = U32(0), !.allocation_count = 0]

interpreter_heap_reset ==
    [interpreter_heap EXCEPT !.current = INTERPRETER_HEAP_BASE,
                             !.used_size = U32(0),
                             !.allocation_count = 0]

InterpreterHeapReset ==
    /\ mem_ops < MaxMemOps
    /\ interpreter_heap' = interpreter_heap_reset
    /\ mem_last' = [op |-> "interpreter_heap_reset", ret |-> NULL32, size |-> U32(0),
                    args |-> <<>>]
    /\ mem_ops' = mem_ops + 1
    /\ UNCHANGED <<kernel_heap, cur_sp, nonMemVars>>


(***************************************************************************)
(* Task scheduler (src/drivers/scheduler.c)                                *)
(***************************************************************************)
LITTLEOS_MAX_TASKS == 16

TASK_PRIORITY_LOW      == 0
TASK_PRIORITY_NORMAL   == 1
TASK_PRIORITY_HIGH     == 2
TASK_PRIORITY_CRITICAL == 3

Priorities == {TASK_PRIORITY_LOW, TASK_PRIORITY_NORMAL, TASK_PRIORITY_HIGH,
               TASK_PRIORITY_CRITICAL}

\* core affinity: 0 = core 0, 1 = core 1, 2 = any
Cores == {0, 1, 2}

\* task_create's failure sentinel 0xFFFF
INVALID_TASK_ID == 65535

\* bound: task_create calls per behaviour in SpecSched
MaxCreates == 2
\* bounds of SpecSchedIds: task_create calls, and the ids task_terminate is
\* called with (1 .. MaxTermId)
MaxIdCreates == 17
MaxTermId == 2

SchedInit ==
    /\ task_table = <<>>
    /\ next_id = 1
    /\ core0_queue = [tasks |-> <<>>, current_index |-> 0]
    /\ core1_queue = [tasks |-> <<>>, current_index |-> 0]
    /\ current_task_id = 0
    /\ enum_signed \in BOOLEAN
    /\ sched_last = [op |-> "none", ret |-> 0]
    /\ sched_ops = 0

task_count == Len(task_table)

TaskIds == {task_table[i].task_id : i \in 1..task_count}

\* index (1-based) of the first descriptor with this id, 0 when there is none
find_task_index(task_id) ==
    IF \E i \in 1..task_count : task_table[i].task_id = task_id
    THEN CHOOSE i \in 1..task_count :
            /\ task_table[i].task_id = task_id
            /\ \A j \in 1..(i - 1) : task_table[j].task_id # task_id
    ELSE 0

\* [id, next_id]: the id handed out and the new value of the static counter
alloc_task_id ==
    IF task_count >= LITTLEOS_MAX_TASKS - 1
    THEN \* table nearly full: the smallest id no live task has
         [id      |-> CHOOSE s \in 1..(task_count + 1) :
                         /\ s \notin TaskIds
                         /\ \A t \in 1..(s - 1) : t \in TaskIds,
          next_id |-> next_id]
    ELSE [id      |-> next_id,
          next_id |-> IF (next_id + 1) % 65536 = 0 THEN 1
                      ELSE (next_id + 1) % 65536]

add_to_queue(queue, task_id) ==
    IF Len(queue.tasks) < LITTLEOS_MAX_TASKS
    THEN [queue EXCEPT !.tasks = Append(@, task_id)]
    ELSE queue

remove_from_queue(queue, task_id) ==
    IF \E i \in 1..Len(queue.tasks) : queue.tasks[i] = task_id
    THEN LET i == CHOOSE k \in 1..Len(queue.tasks) :
                     /\ queue.tasks[k] = task_id
                     /\ \A j \in 1..(k - 1) : queue.tasks[j] # task_id
             rest == SubSeq(queue.tasks, 1, i - 1)
                     \o SubSeq(queue.tasks, i + 1, Len(queue.tasks))
         IN  [tasks |-> rest,
              current_index |->
                 IF queue.current_index >= Len(rest) /\ Len(rest) > 0
                 THEN 0 ELSE queue.current_index]
    ELSE queue

\* task_create(name, entry, arg, priority, core, uid); entry_ok: entry != NULL,
\* stack_ok: malloc of the task stack succeeded
TaskCreate(priority, core, entry_ok, stack_ok) ==
    IF task_count >= LITTLEOS_MAX_TASKS \/ ~entry_ok
    THEN /\ sched_last' = [op |-> "task_create", ret |-> INVALID_TASK_ID]
         /\ UNCHANGED <<task_table, next_id, core0_queue, core1_queue>>
    ELSE
      LET a == alloc_task_id
          task == [task_id |-> a.id, state |-> "READY", priority |-> priority,
                   core_affinity |-> core]
      IN  /\ next_id' = a.next_id
          /\ IF ~stack_ok
             THEN /\ sched_last' = [op |-> "task_create", ret |-> INVALID_TASK_ID]
                  /\ UNCHANGED <<task_table, core0_queue, core1_queue>>
             ELSE /\ task_table' = Append(task_table, task)
                  /\ sched_last' = [op |-> "task_create", ret |-> a.id]
                  /\ IF core = 0
                     THEN /\ core0_queue' = add_to_queue(core0_queue, a.id)
                          /\ UNCHANGED core1_queue
                     ELSE IF core = 1
                     THEN /\ core1_queue' = add_to_queue(core1_queue, a.id)
                          /\ UNCHANGED core0_queue
                     ELSE IF Len(core0_queue.tasks) <= Len(core1_queue.tasks)
                     THEN /\ core0_queue' = add_to_queue(core0_queue, a.id)
                          /\ UNCHANGED core1_queue
                     ELSE /\ core1_queue' = add_to_queue(core1_queue, a.id)
                          /\ UNCHANGED core0_queue

\* task_terminate(task_id)
TaskTerminate(task_id) ==
    LET idx == find_task_index(task_id)
    IN  IF idx = 0
        THEN /\ sched_last' = [op |-> "task_terminate", ret |-> FALSE]
             /\ UNCHANGED <<task_table, core0_queue, core1_queue>>
        ELSE
          LET task == task_table[idx]
              last == task_table[task_count]
          IN  /\ core0_queue' = IF task.core_affinity \in {0, 2}
                                THEN remove_from_queue(core0_queue, task_id)
                                ELSE core0_queue
              /\ core1_queue' = IF task.core_affinity \in {1, 2}
                                THEN remove_from_queue(core1_queue, task_id)
                                ELSE core1_queue
              /\ task_table' =
                   IF idx < task_count
                   THEN SubSeq([task_table EXCEPT ![idx] = last], 1, task_count - 1)
                   ELSE SubSeq(task_table, 1, task_count - 1)
              /\ sched_last' = [op |-> "task_terminate", ret |-> TRUE]

\* task_suspend(task_id)
TaskSuspend(task_id) ==
    LET idx == find_task_index(task_id)
    IN  IF idx # 0 /\ task_table[idx].state \in {"RUNNING", "READY"}
        THEN /\ task_table' = [task_table EXCEPT ![idx].state = "SUSPENDED"]
             /\ sched_last' = [op |-> "task_suspend", ret |-> TRUE]
        ELSE /\ sched_last' = [op |-> "task_suspend", ret |-> FALSE]
             /\ UNCHANGED task_table

\* task_resume(task_id)
TaskResume(task_id) ==
    LET idx == find_task_index(task_id)
    IN  IF idx # 0 /\ task_table[idx].state = "SUSPENDED"
        THEN /\ task_table' = [task_table EXCEPT ![idx].state = "READY"]
             /\ sched_last' = [op |-> "task_resume", ret |-> TRUE]
        ELSE /\ sched_last' = [op |-> "task_resume", ret |-> FALSE]
             /\ UNCHANGED task_table

\* (task_priority_t)-1, the start value of the max-priority scan.  The type
\* of an enum is implementation-defined: with no negative enumerator GCC
\* makes it unsigned (unsigned char under -fshort-enums, the arm-none-eabi
\* default, where the value is 255; otherwise unsigned int, 2^32 - 1, with
\* the same comparison results); a build with a signed enum type gives -1.
priority_minus_one == IF enum_signed THEN -1 ELSE 255

\* the scan of scheduler_next_task_core0/1 over the first n queue entries:
\* [max_priority, selected_task]
RECURSIVE next_task_scan(_, _)
next_task_scan(queue, n) ==
    IF n = 0 THEN [max_priority |-> priority_minus_one, selected_task |-> 0]
    ELSE
      LET prev == next_task_scan(queue, n - 1)
          task_id == queue.tasks[n]
          idx == find_task_index(task_id)
      IN  IF /\ idx # 0
             /\ task_table[idx].state \in {"READY", "RUNNING"}
             /\ task_table[idx].priority > prev.max_priority
          THEN [max_priority |-> task_table[idx].priority, selected_task |-> task_id]
          ELSE prev

scheduler_next_task(queue) ==
    IF Len(queue.tasks) = 0 THEN 0
    ELSE next_task_scan(queue, Len(queue.tasks)).selected_task

SchedulerNextTaskCore0 ==
    LET sel == scheduler_next_task(core0_queue)
    IN  /\ current_task_id' = IF sel # 0 THEN sel ELSE current_task_id
        /\ sched_last' = [op |-> "next_task_core0", ret |-> sel]
        /\ UNCHANGED <<task_table, next_id, core0_queue, core1_queue, enum_signed,
                       sched_ops, nonSchedVars>>

SchedulerNextTaskCore1 ==
    LET sel == scheduler_next_task(core1_queue)
    IN  /\ current_task_id' = IF sel # 0 THEN sel ELSE current_task_id
        /\ sched_last' = [op |-> "next_task_core1", ret |-> sel]
        /\ UNCHANGED <<task_table, next_id, core0_queue, core1_queue, enum_signed,
                       sched_ops, nonSchedVars>>

Create ==
    /\ sched_ops < MaxCreates
    /\ \E p \in Priorities, c \in Cores, entry_ok \in BOOLEAN, stack_ok \in BOOLEAN :
         TaskCreate(p, c, entry_ok, stack_ok)
    /\ sched_ops' = sched_ops + 1
    /\ UNCHANGED <<current_task_id, enum_signed, nonSchedVars>>

Terminate ==
    /\ \E id \in 1..(MaxCreates + 1) : TaskTerminate(id)
    /\ UNCHANGED <<next_id, current_task_id, enum_signed, sched_ops, nonSchedVars>>

Suspend ==
    /\ \E id \in 1..(MaxCreates + 1) : TaskSuspend(id)
    /\ UNCHANGED <<next_id, core0_queue, core1_queue, current_task_id, enum_signed,
                   sched_ops, nonSchedVars>>

Resume ==
    /\ \E id \in 1..(MaxCreates + 1) : TaskResume(id)
    /\ UNCHANGED <<next_id, core0_queue, core1_queue, current_task_id, enum_signed,
                   sched_ops, nonSchedVars>>

\* SpecSchedIds: the table is filled to LITTLEOS_MAX_TASKS with tasks of one
\* priority on core 0, and the oldest tasks are terminated
CreateOnCore0 ==
    /\ sched_ops < MaxIdCreates
    /\ TaskCreate(TASK_PRIORITY_NORMAL, 0, TRUE, TRUE)
    /\ sched_ops' = sched_ops + 1
    /\ UNCHANGED <<current_task_id, enum_signed, nonSchedVars>>

TerminateOldest ==
    /\ \E id \in 1..MaxTermId : TaskTerminate(id)
    /\ UNCHANGED <<next_id, current_task_id, enum_signed, sched_ops, nonSchedVars>>

(***************************************************************************)
(* Specifications                                                          *)
(***************************************************************************)
(***************************************************************************)
(* Watchdog facade (src/drivers/watchdog.c) over the hardware watchdog     *)
(***************************************************************************)
WATCHDOG_TIMEOUT_MIN_MS == 1
WATCHDOG_TIMEOUT_MAX_MS == 8388

\* watchdog_reset_reason_t
WATCHDOG_RESET_NONE    == 0
WATCHDOG_RESET_TIMEOUT == 1

\* bound: number of clock advances in one behaviour
MaxTicks == 3
\* bound: number of calls core 0 makes in one behaviour
MaxCore0Ops == 1

\* how far the clock moves between two observed steps, in ms
TickSteps == {U32(100), U32(3000)}

\* uptime at which supervisor_init returns (the shell can start the
\* supervisor at any uptime): 5536 ms before the 32-bit millisecond clock
\* wraps, so that behaviours cover both sides of the wrap
BootTimes == {<<65535, 60000>>}

\* timeouts passed to wdt_enable: 0, the kernel's 8000, and 9000
EnableTimeouts == {U32(0), U32(8000), U32(9000)}

\* the chip reset by the hardware watchdog: its counter, reloaded by
\* watchdog_enable and watchdog_update, has run down
Tick ==
    /\ ~reset
    /\ ticks < MaxTicks
    /\ ticks' = ticks + 1
    /\ \E d \in TickSteps :
         IF hw_wdt.running
            /\ Ge32(Sub32(Add32(now, d), hw_wdt.last_update), hw_wdt.timeout)
         THEN /\ now' = Add32(hw_wdt.last_update, hw_wdt.timeout)
              /\ reset' = TRUE
         ELSE /\ now' = Add32(now, d)
              /\ UNCHANGED reset
    /\ UNCHANGED <<hw_wdt, wdt_state, metrics, sup, core0, sup_last, nonSupVars>>

\* wdt_init(timeout_ms): [ret, wdt_state]; caused_reboot is what the SDK's
\* watchdog_caused_reboot() returns
wdt_init(timeout_ms, caused_reboot) ==
    IF Lt32(timeout_ms, U32(WATCHDOG_TIMEOUT_MIN_MS))
       \/ Gt32(timeout_ms, U32(WATCHDOG_TIMEOUT_MAX_MS))
    THEN [ret |-> FALSE, wdt_state |-> wdt_state]
    ELSE [ret |-> TRUE,
          wdt_state |-> [enabled |-> FALSE, timeout_ms |-> timeout_ms,
                         feed_count |-> 0, last_feed_time_ms |-> now,
                         last_reset_reason |->
                            IF caused_reboot THEN WATCHDOG_RESET_TIMEOUT
                            ELSE WATCHDOG_RESET_NONE]]

\* wdt_enable(timeout_ms): [ret, wdt_state, hw_wdt]
wdt_enable(timeout_ms) ==
    IF Lt32(timeout_ms, U32(WATCHDOG_TIMEOUT_MIN_MS))
       \/ Gt32(timeout_ms, U32(WATCHDOG_TIMEOUT_MAX_MS))
    THEN [ret |-> FALSE, wdt_state |-> wdt_state, hw_wdt |-> hw_wdt]
    ELSE [ret |-> TRUE,
          wdt_state |-> [wdt_state EXCEPT !.enabled = TRUE,
                                          !.timeout_ms = timeout_ms,
                                          !.feed_count = 0,
                                          !.last_feed_time_ms = now],
          hw_wdt |-> [running |-> TRUE, timeout |-> timeout_ms,
                      last_update |-> now]]

\* wdt_feed(): [wdt_state, hw_wdt]
wdt_feed ==
    IF ~wdt_state.enabled
    THEN [wdt_state |-> wdt_state, hw_wdt |-> hw_wdt]
    ELSE [wdt_state |-> [wdt_state EXCEPT !.feed_count = @ + 1,
                                          !.last_feed_time_ms = now],
          hw_wdt |-> [hw_wdt EXCEPT !.last_update = now]]

\* wdt_feed() in the middle of a handler, on the facade and the hardware as
\* the handler has left them so far (w.wdt_state, w.hw_wdt)
wdt_feed_in(w) ==
    IF ~w.wdt_state.enabled THEN w
    ELSE [w EXCEPT !.wdt_state.feed_count = @ + 1,
                   !.wdt_state.last_feed_time_ms = now,
                   !.hw_wdt.last_update = now]

\* wdt_disable(): the facade is marked disabled, the hardware keeps counting
wdt_disable ==
    IF ~wdt_state.enabled THEN wdt_state
    ELSE [wdt_state EXCEPT !.enabled = FALSE]

\* watchdog_disable() of src/watchdog.c, the same facade under the names
\* watchdog_*: the SDK's watchdog_enable(WATCHDOG_TIMEOUT_MAX_MS, 1) reloads
\* the countdown with the maximum, then the facade is marked disabled.
\* [wdt_state, hw_wdt]
watchdog_disable ==
    IF ~wdt_state.enabled
    THEN [wdt_state |-> wdt_state, hw_wdt |-> hw_wdt]
    ELSE [wdt_state |-> [wdt_state EXCEPT !.enabled = FALSE],
          hw_wdt |-> [running |-> TRUE, timeout |-> U32(WATCHDOG_TIMEOUT_MAX_MS),
                      last_update |-> now]]

\* wdt_get_time_remaining_ms()
wdt_get_time_remaining_ms ==
    IF ~wdt_state.enabled THEN U32(0)
    ELSE LET elapsed == Sub32(now, wdt_state.last_feed_time_ms)
         IN  IF Ge32(elapsed, wdt_state.timeout_ms) THEN U32(0)
             ELSE Sub32(wdt_state.timeout_ms, elapsed)

\* core 0 runs code only while it is neither hung nor reset
Core0Runs == ~reset /\ ~core0.hung /\ core0.ops < MaxCore0Ops

Core0WdtEnable ==
    /\ Core0Runs
    /\ \E t \in EnableTimeouts :
         LET r == wdt_enable(t)
         IN  /\ wdt_state' = r.wdt_state
             /\ hw_wdt' = r.hw_wdt
    /\ core0' = [core0 EXCEPT !.ops = @ + 1]
    /\ UNCHANGED <<now, metrics, sup, sup_last, reset, ticks, nonSupVars>>

Core0WdtDisable ==
    /\ Core0Runs
    /\ wdt_state' = wdt_disable
    /\ core0' = [core0 EXCEPT !.ops = @ + 1]
    /\ UNCHANGED <<now, hw_wdt, metrics, sup, sup_last, reset, ticks, nonSupVars>>

Core0WdtFeed ==
    /\ Core0Runs
    /\ wdt_state' = wdt_feed.wdt_state
    /\ hw_wdt' = wdt_feed.hw_wdt
    /\ core0' = [core0 EXCEPT !.ops = @ + 1]
    /\ UNCHANGED <<now, metrics, sup, sup_last, reset, ticks, nonSupVars>>

\* core 0 stops making progress (an endless loop that feeds nothing)
Core0Hang ==
    /\ ~reset
    /\ ~core0.hung
    /\ core0' = [core0 EXCEPT !.hung = TRUE, !.hang_since = now]
    /\ UNCHANGED <<now, hw_wdt, wdt_state, metrics, sup, sup_last, reset, ticks,
                   nonSupVars>>

(***************************************************************************)
(* Core-1 supervisor (src/supervisor.c)                                    *)
(***************************************************************************)
SUPERVISOR_CHECK_INTERVAL_MS   == 100
SUPERVISOR_WATCHDOG_TIMEOUT_MS == 8000
SUPERVISOR_MEMORY_WARN_PERCENT == 80
SUPERVISOR_TEMP_WARN_C         == 70
SUPERVISOR_TEMP_CRITICAL_C     == 80

HEALTH_OK        == 0
HEALTH_WARNING   == 1
HEALTH_CRITICAL  == 2
HEALTH_EMERGENCY == 3

HeartbeatTimeoutOf7s == U32(7000)

FeedLateAtFullTimeout == U32(SUPERVISOR_WATCHDOG_TIMEOUT_MS)

\* the feed age above which check_system_health flags the watchdog:
\* SUPERVISOR_WATCHDOG_TIMEOUT_MS / 2
WATCHDOG_FEED_LATE_MS == U32(SUPERVISOR_WATCHDOG_TIMEOUT_MS \div 2)

\* the heartbeat timeout (5000 ms) and the resync threshold (1000000000 ms)
\* written as literals in check_system_health
HEARTBEAT_TIMEOUT_MS == U32(5000)
RESYNC_THRESHOLD_MS  == <<15258, 51712>>

\* die temperatures read_temperature() can return, in degrees Celsius
TempReadings == {25, 75, 85}

\* supervisor_report_memory arguments
MemoryDeltas == {60000, -40000}

\* metrics.memory_usage_percent = (float)heap_used_bytes / 655.36f compared
\* with SUPERVISOR_MEMORY_WARN_PERCENT: above 80 from 52429 bytes on
memory_usage_high(m) == Gt32(m.heap_used_bytes, U32(52428))

\* the record of the last call on the watchdog facade
NoCall == [op |-> "none", t |-> U32(0), ret |-> FALSE, was_enabled |-> FALSE]

\* the supervisor's metrics and loop state once supervisor_init has returned
SupRestInit ==
    /\ metrics = [uptime_ms |-> now, core0_last_heartbeat |-> now,
                  last_feed_time_ms |-> now, watchdog_feeds |-> 1,
                  core0_responsive |-> TRUE, health_status |-> HEALTH_OK,
                  health_flags |-> {}, temp_celsius |-> 0,
                  temp_peak_celsius |-> 0, heap_used_bytes |-> U32(0),
                  heap_free_bytes |-> U32(0), heap_peak_bytes |-> U32(0),
                  heap_allocations |-> 0, heap_frees |-> 0,
                  warning_count |-> 0, critical_count |-> 0]
    /\ sup = [supervisor_running |-> TRUE, last_check_time |-> now,
              sleep_from |-> now, last_heap_used |-> U32(0),
              memory_stable_count |-> 0,
              pc |-> "sleep", stop_pc |-> "idle", stop_at |-> U32(0),
              stopped_in |-> "none", exited |-> FALSE, exited_at |-> U32(0),
              core1_state |-> "IDLE", launches |-> 0]
    /\ core0 = [hung |-> FALSE, hang_since |-> U32(0), ops |-> 0, call |-> NoCall]
    /\ sup_last = [checked |-> FALSE, time_since_heartbeat |-> U32(0),
                   time_since_feed |-> U32(0)]
    /\ reset = FALSE
    /\ ticks = 0

SupInit ==
    /\ now \in BootTimes
    /\ hw_wdt = [running |-> TRUE, timeout |-> U32(SUPERVISOR_WATCHDOG_TIMEOUT_MS),
                 last_update |-> now]
    /\ wdt_state = [enabled |-> TRUE,
                    timeout_ms |-> U32(SUPERVISOR_WATCHDOG_TIMEOUT_MS),
                    feed_count |-> 0, last_feed_time_ms |-> now,
                    last_reset_reason |-> WATCHDOG_RESET_NONE]
    /\ SupRestInit

\* check_system_health() with the uptime it sampled, the feed and heartbeat
\* timestamps it read and the temperature read_temperature() returns:
\* [metrics, last_heap_used, memory_stable_count, time_since_heartbeat,
\*  time_since_feed]
check_system_health_at(sampled, fed, beat, temp) ==
    LET time_since_feed == Sub32(sampled, fed)
        feed_late == Gt32(time_since_feed, WATCHDOG_FEED_LATE_MS)
        raw_age   == Sub32(sampled, beat)
        resync    == Gt32(raw_age, RESYNC_THRESHOLD_MS)
        time_since_heartbeat == IF resync THEN U32(0) ELSE raw_age
        hung      == Gt32(time_since_heartbeat, HEARTBEAT_TIMEOUT_MS)
        mem_high  == memory_usage_high(metrics)
        stable    == IF metrics.heap_used_bytes = sup.last_heap_used
                     THEN sup.memory_stable_count + 1 ELSE 0
        leak      == /\ stable = 0
                     /\ Gt32(metrics.heap_used_bytes,
                             Add32(sup.last_heap_used, U32(1024)))
                     /\ Gt32(metrics.heap_used_bytes, U32(50000))
        temp_crit == temp > SUPERVISOR_TEMP_CRITICAL_C
        temp_high == ~temp_crit /\ temp > SUPERVISOR_TEMP_WARN_C
        AtLeastWarning(h) == IF h < HEALTH_WARNING THEN HEALTH_WARNING ELSE h
        h1 == IF feed_late THEN HEALTH_WARNING ELSE HEALTH_OK
        h2 == IF hung THEN HEALTH_CRITICAL ELSE h1
        h3 == IF mem_high THEN AtLeastWarning(h2) ELSE h2
        h4 == IF leak THEN AtLeastWarning(h3) ELSE h3
        health == IF temp_crit THEN HEALTH_EMERGENCY
                  ELSE IF temp_high THEN AtLeastWarning(h4) ELSE h4
        flags == (IF feed_late THEN {"WATCHDOG"} ELSE {})
                 \cup (IF hung THEN {"CORE0_HUNG"} ELSE {})
                 \cup (IF mem_high THEN {"MEMORY_HIGH"} ELSE {})
                 \cup (IF leak THEN {"MEMORY_LEAK"} ELSE {})
                 \cup (IF temp_crit THEN {"TEMP_CRITICAL"} ELSE {})
                 \cup (IF temp_high THEN {"TEMP_HIGH"} ELSE {})
    IN  [metrics |->
            [metrics EXCEPT
               !.core0_last_heartbeat = IF resync THEN sampled ELSE @,
               !.core0_responsive = ~hung,
               !.temp_celsius = temp,
               !.temp_peak_celsius = IF temp > @ THEN temp ELSE @,
               !.health_flags = flags,
               !.health_status = health,
               !.warning_count = IF health >= HEALTH_WARNING THEN @ + 1 ELSE @,
               !.critical_count = IF health >= HEALTH_CRITICAL THEN @ + 1 ELSE @],
         last_heap_used |-> metrics.heap_used_bytes,
         memory_stable_count |-> stable,
         time_since_heartbeat |-> raw_age,
         time_since_feed |-> time_since_feed]

\* check_system_health() when nothing else runs between its statements
check_system_health(temp) ==
    check_system_health_at(now, metrics.last_feed_time_ms,
                           metrics.core0_last_heartbeat, temp)

LoopSleepOf200Ms == U32(200)

\* the sleep_ms(10) that ends an iteration of supervisor_loop
LOOP_SLEEP_MS == U32(10)

\* the sleep_ms(200) of supervisor_stop
STOP_SLEEP_MS == U32(200)

\* one iteration of the while loop of supervisor_loop(), entered once the
\* sleep_ms(10) that ended the previous iteration has elapsed
SupervisorLoop ==
    /\ ~reset
    /\ sup.supervisor_running
    /\ Ge32(Sub32(now, sup.sleep_from), LOOP_SLEEP_MS)
    /\ IF Ge32(Sub32(now, sup.last_check_time), U32(SUPERVISOR_CHECK_INTERVAL_MS))
       THEN \E temp \in TempReadings :
              LET c == check_system_health(temp)
              IN  /\ metrics' = [c.metrics EXCEPT !.uptime_ms = now]
                  /\ sup' = [sup EXCEPT !.last_check_time = now,
                                        !.sleep_from = now,
                                        !.last_heap_used = c.last_heap_used,
                                        !.memory_stable_count = c.memory_stable_count]
                  /\ sup_last' = [checked |-> TRUE,
                                  time_since_heartbeat |-> c.time_since_heartbeat,
                                  time_since_feed |-> c.time_since_feed]
       ELSE /\ metrics' = [metrics EXCEPT !.uptime_ms = now]
            /\ sup' = [sup EXCEPT !.sleep_from = now]
            /\ sup_last' = [sup_last EXCEPT !.checked = FALSE]
    /\ wdt_state' = wdt_feed.wdt_state
    /\ hw_wdt' = wdt_feed.hw_wdt
    /\ UNCHANGED <<now, core0, reset, ticks, nonSupVars>>

\* supervisor_loop() step by step, for supervisor_stop() arriving from core 0
\* at any point of an iteration: sup.pc is core 1's position ("sleep" in the
\* sleep_ms(10), "test" at the while condition, "body" before the health
\* check, "feed" before wdt_feed; "exited" after the loop; "reset" once
\* multicore_reset_core1 has halted the core).  Instructions take no time;
\* time passes only in sleep_ms.
\* bound: number of clock advances in one behaviour of SpecSupStop
MaxStopTicks == 14

StopTickSteps == {U32(5), U32(10), U32(100)}

\* sleep_ms(10) returns
LoopWake ==
    /\ ~reset
    /\ sup.pc = "sleep"
    /\ Ge32(Sub32(now, sup.sleep_from), LOOP_SLEEP_MS)
    /\ sup' = [sup EXCEPT !.pc = "test"]
    /\ UNCHANGED <<now, hw_wdt, wdt_state, metrics, core0, sup_last, reset, ticks,
                   nonSupVars>>

\* while (supervisor_running)
LoopTest ==
    /\ ~reset
    /\ sup.pc = "test"
    /\ sup' = IF sup.supervisor_running
              THEN [sup EXCEPT !.pc = "body"]
              ELSE [sup EXCEPT !.pc = "exited", !.exited = TRUE, !.exited_at = now]
    /\ UNCHANGED <<now, hw_wdt, wdt_state, metrics, core0, sup_last, reset, ticks,
                   nonSupVars>>

\* now = to_ms_since_boot(...); metrics.uptime_ms = now; the health check
\* when the check interval has elapsed
LoopBody ==
    /\ ~reset
    /\ sup.pc = "body"
    /\ IF Ge32(Sub32(now, sup.last_check_time), U32(SUPERVISOR_CHECK_INTERVAL_MS))
       THEN \E temp \in TempReadings :
              LET c == check_system_health(temp)
              IN  /\ metrics' = [c.metrics EXCEPT !.uptime_ms = now]
                  /\ sup' = [sup EXCEPT !.last_check_time = now,
                                        !.last_heap_used = c.last_heap_used,
                                        !.memory_stable_count = c.memory_stable_count,
                                        !.pc = "feed"]
                  /\ sup_last' = [checked |-> TRUE,
                                  time_since_heartbeat |-> c.time_since_heartbeat,
                                  time_since_feed |-> c.time_since_feed]
       ELSE /\ metrics' = [metrics EXCEPT !.uptime_ms = now]
            /\ sup' = [sup EXCEPT !.pc = "feed"]
            /\ sup_last' = [sup_last EXCEPT !.checked = FALSE]
    /\ UNCHANGED <<now, hw_wdt, wdt_state, core0, reset, ticks, nonSupVars>>

\* wdt_feed(); sleep_ms(10) begins
LoopFeed ==
    /\ ~reset
    /\ sup.pc = "feed"
    /\ wdt_state' = wdt_feed.wdt_state
    /\ hw_wdt' = wdt_feed.hw_wdt
    /\ sup' = [sup EXCEPT !.pc = "sleep", !.sleep_from = now]
    /\ UNCHANGED <<now, metrics, core0, sup_last, reset, ticks, nonSupVars>>

\* supervisor_stop() on core 0, up to its sleep_ms(200)
SupervisorStop ==
    /\ ~reset
    /\ sup.stop_pc = "idle"
    /\ sup.supervisor_running
    /\ sup' = [sup EXCEPT !.supervisor_running = FALSE, !.stop_pc = "sleeping",
                          !.stop_at = now, !.stopped_in = sup.pc]
    /\ UNCHANGED <<now, hw_wdt, wdt_state, metrics, core0, sup_last, reset, ticks,
                   nonSupVars>>

\* supervisor_stop() after its sleep_ms(200): multicore_reset_core1()
SupervisorStopReset ==
    /\ ~reset
    /\ sup.stop_pc = "sleeping"
    /\ Ge32(Sub32(now, sup.stop_at), STOP_SLEEP_MS)
    /\ sup' = [sup EXCEPT !.stop_pc = "done", !.pc = "reset"]
    /\ UNCHANGED <<now, hw_wdt, wdt_state, metrics, core0, sup_last, reset, ticks,
                   nonSupVars>>

\* multicore.c's use of core 1.  sup.core1_state is its core1_state, IDLE
\* until a launch; sup.pc is "entry" when core 1 starts core1_entry, "eval"
\* while sage_eval_string runs there and "returned" once core1_entry has
\* returned.

\* bound: number of launches on core 1 in one behaviour (sup.launches)
MaxLaunches == 1

\* multicore_launch_code(code) on core 0 with code that is not empty and a
\* malloc that succeeds: multicore_reset_core1, multicore_launch_core1
MulticoreLaunchCode ==
    /\ ~reset
    /\ sup.launches < MaxLaunches
    /\ sup.core1_state # "RUNNING"
    /\ sup' = [sup EXCEPT !.pc = "entry", !.launches = @ + 1]
    /\ UNCHANGED <<now, hw_wdt, wdt_state, metrics, core0, sup_last, reset, ticks,
                   nonSupVars>>

\* core1_entry up to sage_eval_string: sage_init, core1_state, wdt_feed
Core1EntryInit ==
    /\ ~reset
    /\ sup.pc = "entry"
    /\ \E sage_ok \in BOOLEAN :
         IF sage_ok
         THEN /\ sup' = [sup EXCEPT !.core1_state = "RUNNING", !.pc = "eval"]
              /\ wdt_state' = wdt_feed.wdt_state
              /\ hw_wdt' = wdt_feed.hw_wdt
         ELSE /\ sup' = [sup EXCEPT !.core1_state = "ERROR", !.pc = "returned"]
              /\ UNCHANGED <<wdt_state, hw_wdt>>
    /\ UNCHANGED <<now, metrics, core0, sup_last, reset, ticks, nonSupVars>>

\* core1_entry from the return of sage_eval_string: wdt_feed, core1_state
Core1EntryDone ==
    /\ ~reset
    /\ sup.pc = "eval"
    /\ \E result_ok \in BOOLEAN :
         sup' = [sup EXCEPT !.core1_state = IF result_ok THEN "STOPPED" ELSE "ERROR",
                            !.pc = "returned"]
    /\ wdt_state' = wdt_feed.wdt_state
    /\ hw_wdt' = wdt_feed.hw_wdt
    /\ UNCHANGED <<now, metrics, core0, sup_last, reset, ticks, nonSupVars>>

\* multicore_stop() on core 0
MulticoreStop ==
    /\ ~reset
    /\ sup.core1_state # "IDLE"
    /\ sup' = [sup EXCEPT !.core1_state = "IDLE", !.pc = "reset"]
    /\ UNCHANGED <<now, hw_wdt, wdt_state, metrics, core0, sup_last, reset, ticks,
                   nonSupVars>>

\* time passes while core 1 evaluates the code or after core1_entry returned
Core1Tick ==
    /\ ~reset
    /\ ticks < MaxStopTicks
    /\ sup.pc \in {"eval", "returned"}
    /\ IF hw_wdt.running
          /\ Ge32(Sub32(Add32(now, U32(100)), hw_wdt.last_update), hw_wdt.timeout)
       THEN /\ now' = Add32(hw_wdt.last_update, hw_wdt.timeout)
            /\ reset' = TRUE
       ELSE /\ now' = Add32(now, U32(100))
            /\ UNCHANGED reset
    /\ ticks' = ticks + 1
    /\ UNCHANGED <<hw_wdt, wdt_state, metrics, sup, core0, sup_last, nonSupVars>>

\* time passes while core 1 is in its sleep_ms (or has left the loop), up to
\* the moment a sleeping core wakes
StopTick ==
    /\ ~reset
    /\ ticks < MaxStopTicks
    /\ sup.pc \in {"sleep", "exited", "reset"}
    /\ \E d \in StopTickSteps :
         /\ sup.pc = "sleep" =>
               Le32(Sub32(Add32(now, d), sup.sleep_from), LOOP_SLEEP_MS)
         /\ sup.stop_pc = "sleeping" =>
               Le32(Sub32(Add32(now, d), sup.stop_at), STOP_SLEEP_MS)
         /\ IF hw_wdt.running
               /\ Ge32(Sub32(Add32(now, d), hw_wdt.last_update), hw_wdt.timeout)
            THEN /\ now' = Add32(hw_wdt.last_update, hw_wdt.timeout)
                 /\ reset' = TRUE
            ELSE /\ now' = Add32(now, d)
                 /\ UNCHANGED reset
    /\ ticks' = ticks + 1
    /\ UNCHANGED <<hw_wdt, wdt_state, metrics, sup, core0, sup_last, nonSupVars>>

\* supervisor_heartbeat(), called from core 0
supervisor_heartbeat ==
    [metrics EXCEPT !.core0_last_heartbeat = now,
                    !.last_feed_time_ms = now,
                    !.watchdog_feeds = @ + 1]

\* supervisor_heartbeat() in the middle of a handler, on w.metrics
supervisor_heartbeat_in(w) ==
    [w EXCEPT !.metrics.core0_last_heartbeat = now,
              !.metrics.last_feed_time_ms = now,
              !.metrics.watchdog_feeds = @ + 1]

Core0Heartbeat ==
    /\ Core0Runs
    /\ metrics' = supervisor_heartbeat
    /\ core0' = [core0 EXCEPT !.ops = @ + 1]
    /\ UNCHANGED <<now, hw_wdt, wdt_state, sup, sup_last, reset, ticks, nonSupVars>>

\* supervisor_report_memory(allocated), allocated a (signed) int
supervisor_report_memory(allocated) ==
    LET used == IF allocated > 0
                THEN Add32(metrics.heap_used_bytes, U32(allocated))
                ELSE Sub32(metrics.heap_used_bytes, U32(-allocated))
    IN  [metrics EXCEPT
           !.heap_used_bytes = used,
           !.heap_allocations = IF allocated > 0 THEN @ + 1 ELSE @,
           !.heap_frees = IF allocated > 0 THEN @ ELSE @ + 1,
           !.heap_peak_bytes = IF allocated > 0 /\ Gt32(used, @) THEN used ELSE @,
           !.heap_free_bytes = Sub32(U32(65536), used)]

Core0ReportMemory ==
    /\ Core0Runs
    /\ \E allocated \in MemoryDeltas :
         metrics' = supervisor_report_memory(allocated)
    /\ core0' = [core0 EXCEPT !.ops = @ + 1]
    /\ UNCHANGED <<now, hw_wdt, wdt_state, sup, sup_last, reset, ticks, nonSupVars>>

(***************************************************************************)
(* check_system_health on core 1 and supervisor_heartbeat on core 0,       *)
(* statement by statement (src/supervisor.c).  metrics is shared without a *)
(* lock; a load or a store of one of its words is one step.                *)
(***************************************************************************)
\* bounds: health checks, heartbeats, and clock steps in one behaviour
MaxRaceChecks == 2
MaxRaceBeats == 2
MaxRaceTicks == 2

\* how far the clock moves between two statements, in ms
RaceSteps == {U32(1), U32(6000)}

HcInit ==
    hc = [pc1 |-> "idle", now1 |-> U32(0), fed |-> U32(0), beat |-> U32(0),
          time_since_feed |-> U32(0), raw_age |-> U32(0), resync |-> FALSE,
          checks |-> 0,
          pc0 |-> "idle", now0 |-> U32(0), beats |-> 0, ticks |-> 0]

RaceUnchanged == <<now, hw_wdt, wdt_state, core0, sup_last, reset, ticks,
                   memVars, schedVars, fsVars, permVars, sageVars, cfg>>

\* uint32_t now = to_ms_since_boot(get_absolute_time())
HealthSample ==
    /\ hc.pc1 = "idle"
    /\ hc.checks < MaxRaceChecks
    /\ hc' = [hc EXCEPT !.pc1 = "feed", !.now1 = now]
    /\ UNCHANGED <<metrics, sup, RaceUnchanged>>

\* uint32_t time_since_feed = now - metrics.last_feed_time_ms
HealthFeedAge ==
    /\ hc.pc1 = "feed"
    /\ hc' = [hc EXCEPT !.pc1 = "heartbeat",
                        !.fed = metrics.last_feed_time_ms,
                        !.time_since_feed = Sub32(hc.now1, metrics.last_feed_time_ms)]
    /\ UNCHANGED <<metrics, sup, RaceUnchanged>>

\* uint32_t time_since_heartbeat = now - metrics.core0_last_heartbeat, the
\* resynchronisation, and the store to core0_responsive
HealthHeartbeatAge ==
    /\ hc.pc1 = "heartbeat"
    /\ hc' = [hc EXCEPT
                 !.pc1 = "rest",
                 !.beat = metrics.core0_last_heartbeat,
                 !.raw_age = Sub32(hc.now1, metrics.core0_last_heartbeat),
                 !.resync = Gt32(Sub32(hc.now1, metrics.core0_last_heartbeat),
                                 RESYNC_THRESHOLD_MS)]
    /\ metrics' = [metrics EXCEPT
                      !.core0_last_heartbeat =
                          IF Gt32(Sub32(hc.now1, @), RESYNC_THRESHOLD_MS)
                          THEN hc.now1 ELSE @,
                      !.core0_responsive =
                          \/ Gt32(Sub32(hc.now1, metrics.core0_last_heartbeat),
                                  RESYNC_THRESHOLD_MS)
                          \/ ~Gt32(Sub32(hc.now1, metrics.core0_last_heartbeat),
                                   HEARTBEAT_TIMEOUT_MS)]
    /\ UNCHANGED <<sup, RaceUnchanged>>

\* the rest of check_system_health: memory, temperature, and the stores of
\* health_flags, health_status and the counters
HealthRest ==
    /\ hc.pc1 = "rest"
    /\ \E temp \in TempReadings :
         /\ metrics' = [check_system_health_at(hc.now1, hc.fed, hc.beat,
                                               temp).metrics EXCEPT
                           !.core0_last_heartbeat = metrics.core0_last_heartbeat]
         /\ sup' = [sup EXCEPT
                      !.last_heap_used =
                          check_system_health_at(hc.now1, hc.fed, hc.beat,
                                                 temp).last_heap_used,
                      !.memory_stable_count =
                          check_system_health_at(hc.now1, hc.fed, hc.beat,
                                                 temp).memory_stable_count]
    /\ hc' = [hc EXCEPT !.pc1 = "idle", !.checks = @ + 1]
    /\ UNCHANGED RaceUnchanged

\* supervisor_heartbeat: uint32_t now = to_ms_since_boot(...)
HeartbeatSample ==
    /\ hc.pc0 = "idle"
    /\ hc.beats < MaxRaceBeats
    /\ hc' = [hc EXCEPT !.pc0 = "heartbeat", !.now0 = now]
    /\ UNCHANGED <<metrics, sup, RaceUnchanged>>

\* metrics.core0_last_heartbeat = now
HeartbeatStore ==
    /\ hc.pc0 = "heartbeat"
    /\ hc' = [hc EXCEPT !.pc0 = "feed"]
    /\ metrics' = [metrics EXCEPT !.core0_last_heartbeat = hc.now0]
    /\ UNCHANGED <<sup, RaceUnchanged>>

\* metrics.last_feed_time_ms = now; metrics.watchdog_feeds++
HeartbeatFeedStore ==
    /\ hc.pc0 = "feed"
    /\ hc' = [hc EXCEPT !.pc0 = "idle", !.beats = @ + 1]
    /\ metrics' = [metrics EXCEPT !.last_feed_time_ms = hc.now0,
                                  !.watchdog_feeds = @ + 1]
    /\ UNCHANGED <<sup, RaceUnchanged>>

\* time passes between two statements
RaceTick ==
    /\ hc.ticks < MaxRaceTicks
    /\ \E d \in RaceSteps : now' = Add32(now, d)
    /\ hc' = [hc EXCEPT !.ticks = @ + 1]
    /\ UNCHANGED <<metrics, sup, hw_wdt, wdt_state, core0, sup_last, reset, ticks,
                   memVars, schedVars, fsVars, permVars, sageVars, cfg>>

(***************************************************************************)
(* Persistent configuration (include/config_storage.h,                     *)
(* src/config_storage.c).  A string is the sequence of its bytes before    *)
(* the terminator.  sizeof(config_storage_t) is 16 + 32 * 289 + 2048 + 1    *)
(* bytes, more than the one sector of FLASH_SECTOR_SIZE bytes config_save  *)
(* erases: the header and the first entries lie in the erased sector, the  *)
(* rest of the record is programmed over whatever the flash held there.    *)
(***************************************************************************)
CONFIG_MAGIC == 1129270854
CONFIG_VERSION == 1
CONFIG_MAX_KEY_LEN == 32
CONFIG_MAX_VALUE_LEN == 256
CONFIG_MAX_ENTRIES == 32
FLASH_SECTOR_SIZE == 4096

CONFIG_OK                  == "CONFIG_OK"
CONFIG_ERROR_NOT_FOUND     == "CONFIG_ERROR_NOT_FOUND"
CONFIG_ERROR_FULL          == "CONFIG_ERROR_FULL"
CONFIG_ERROR_INVALID_KEY   == "CONFIG_ERROR_INVALID_KEY"
CONFIG_ERROR_INVALID_VALUE == "CONFIG_ERROR_INVALID_VALUE"
CONFIG_ERROR_FLASH         == "CONFIG_ERROR_FLASH"

\* entries that lie wholly in the erased sector, after the header of four
\* words
SectorEntries ==
    (FLASH_SECTOR_SIZE - 16) \div (CONFIG_MAX_KEY_LEN + CONFIG_MAX_VALUE_LEN + 1)

\* the key that fills entry i of the table in the initial state
FillKey(i) == <<64 + i>>

\* keys and values passed in: two valid keys, the empty key and a key of
\* CONFIG_MAX_KEY_LEN bytes, and for config_delete the keys of the first and
\* of the last entry as well; the empty value, a value of two bytes and a
\* value of CONFIG_MAX_VALUE_LEN bytes
CfgKeys == {<<1>>, <<2>>, <<>>, [i \in 1..CONFIG_MAX_KEY_LEN |-> 1]}
DeleteKeys == CfgKeys \cup {FillKey(1), FillKey(CONFIG_MAX_ENTRIES)}
CfgValues == {<<>>, <<6, 6>>, [i \in 1..CONFIG_MAX_VALUE_LEN |-> 7]}
ValueSizes == {2, CONFIG_MAX_VALUE_LEN}

\* what memset(.., 0, ..) leaves of an entry
ZeroEntry == [key |-> <<>>, value |-> <<>>, used |-> FALSE]

RECURSIVE SumBytes(_)
SumBytes(s) == IF s = <<>> THEN 0 ELSE Head(s) + SumBytes(Tail(s))

RECURSIVE SumEntries(_, _)
SumEntries(entries, i) ==
    IF i > Len(entries) THEN 0
    ELSE SumBytes(entries[i].key) + SumBytes(entries[i].value)
         + (IF entries[i].used THEN 1 ELSE 0) + SumEntries(entries, i + 1)

\* calculate_checksum(cfg): the bytes from entries to the end of the record
calculate_checksum(d) ==
    SumEntries(d.entries, 1) + SumBytes(d.autoboot_script)
        + (IF d.autoboot_enabled THEN 1 ELSE 0)

validate_config(d) ==
    /\ d.magic = CONFIG_MAGIC
    /\ d.version = CONFIG_VERSION
    /\ d.entry_count <= CONFIG_MAX_ENTRIES
    /\ d.checksum = calculate_checksum(d)

\* config_data after init_defaults()
init_defaults ==
    [magic |-> CONFIG_MAGIC, version |-> CONFIG_VERSION, entry_count |-> 0,
     checksum |-> 0,
     entries |-> [i \in 1..CONFIG_MAX_ENTRIES |-> ZeroEntry],
     autoboot_script |-> <<>>, autoboot_enabled |-> FALSE]

\* strncpy(dst, src, n - 1); dst[n - 1] = 0
Strncpy(src, n) == SubSeq(src, 1, IF Len(src) < n - 1 THEN Len(src) ELSE n - 1)

\* the loops over the table: the first used entry with the key from i on,
\* the first unused entry from i on, 0 when there is none
RECURSIVE config_find(_, _, _)
config_find(entries, key, i) ==
    IF i > CONFIG_MAX_ENTRIES THEN 0
    ELSE IF entries[i].used /\ entries[i].key = key THEN i
    ELSE config_find(entries, key, i + 1)

RECURSIVE config_free_slot(_, _)
config_free_slot(entries, i) ==
    IF i > CONFIG_MAX_ENTRIES THEN 0
    ELSE IF ~entries[i].used THEN i
    ELSE config_free_slot(entries, i + 1)

\* what a read of the sector returns after flash_range_erase of the sector
\* and flash_range_program of the whole record d: what lies in the erased
\* sector reads as programmed; what lies past it reads as programmed or with
\* its bits cleared by what the flash held there
flash_program(d) ==
    {d, [d EXCEPT !.entries = [i \in 1..CONFIG_MAX_ENTRIES |->
                                  IF i <= SectorEntries THEN d.entries[i]
                                  ELSE ZeroEntry]]}

\* config_load() without validate_config
config_load_unchecked(c) ==
    [ret |-> TRUE,
     c |-> [c EXCEPT !.config_data = c.flash, !.config_dirty = FALSE]]

\* config_load(): [ret, c]
config_load(c) ==
    IF ~validate_config(c.flash) THEN [ret |-> FALSE, c |-> c]
    ELSE [ret |-> TRUE,
          c |-> [c EXCEPT !.config_data = c.flash, !.config_dirty = FALSE]]

\* config_set(key, value): [ret, c]
config_set(c, key, value) ==
    IF ~c.config_initialized THEN [ret |-> CONFIG_ERROR_FLASH, c |-> c]
    ELSE IF Len(key) = 0 \/ Len(key) >= CONFIG_MAX_KEY_LEN
    THEN [ret |-> CONFIG_ERROR_INVALID_KEY, c |-> c]
    ELSE IF Len(value) >= CONFIG_MAX_VALUE_LEN
    THEN [ret |-> CONFIG_ERROR_INVALID_VALUE, c |-> c]
    ELSE IF config_find(c.config_data.entries, key, 1) # 0
    THEN [ret |-> CONFIG_OK,
          c |-> [c EXCEPT
                   !.config_data.entries[config_find(c.config_data.entries, key, 1)].value =
                       Strncpy(value, CONFIG_MAX_VALUE_LEN),
                   !.config_dirty = TRUE]]
    ELSE IF config_free_slot(c.config_data.entries, 1) # 0
    THEN [ret |-> CONFIG_OK,
          c |-> [c EXCEPT
                   !.config_data.entries[config_free_slot(c.config_data.entries, 1)] =
                       [key |-> Strncpy(key, CONFIG_MAX_KEY_LEN),
                        value |-> Strncpy(value, CONFIG_MAX_VALUE_LEN),
                        used |-> TRUE],
                   !.config_data.entry_count = @ + 1,
                   !.config_dirty = TRUE]]
    ELSE [ret |-> CONFIG_ERROR_FULL, c |-> c]

\* config_get(key, value, value_size): [ret, value]
config_get(c, key, value_size) ==
    IF ~c.config_initialized THEN [ret |-> CONFIG_ERROR_FLASH, value |-> <<>>]
    ELSE IF config_find(c.config_data.entries, key, 1) # 0
    THEN [ret |-> CONFIG_OK,
          value |-> Strncpy(c.config_data.entries[
                                config_find(c.config_data.entries, key, 1)].value,
                            value_size)]
    ELSE [ret |-> CONFIG_ERROR_NOT_FOUND, value |-> <<>>]

\* config_delete(key): [ret, c]
config_delete(c, key) ==
    IF ~c.config_initialized THEN [ret |-> CONFIG_ERROR_FLASH, c |-> c]
    ELSE IF config_find(c.config_data.entries, key, 1) # 0
    THEN [ret |-> CONFIG_OK,
          c |-> [c EXCEPT
                   !.config_data.entries[config_find(c.config_data.entries, key, 1)] =
                       ZeroEntry,
                   !.config_data.entry_count = @ - 1,
                   !.config_dirty = TRUE]]
    ELSE [ret |-> CONFIG_ERROR_NOT_FOUND, c |-> c]

\* track.stage: "set", "saved" and "loaded" for config_set and for
\* config_save and config_load that follow it at once, the function's name
\* after any other call; key and value are the arguments of config_set, value
\* after config_get is what it returned through its buffer
NoTrack == [stage |-> "config_init", key |-> <<>>, value |-> <<>>,
            ret |-> CONFIG_OK, load_ret |-> FALSE]

\* after config_init() on a device whose sector holds no valid record (the
\* defaults are saved), and config_set of CONFIG_MAX_ENTRIES keys
CfgInit ==
    cfg = [config_data |->
               [init_defaults EXCEPT
                   !.entries = [i \in 1..CONFIG_MAX_ENTRIES |->
                                   [key |-> FillKey(i), value |-> <<9>>,
                                    used |-> TRUE]],
                   !.entry_count = CONFIG_MAX_ENTRIES],
           config_initialized |-> TRUE, config_dirty |-> TRUE,
           flash |-> init_defaults, track |-> NoTrack]

ConfigSet ==
    \E key \in CfgKeys, value \in CfgValues :
        /\ cfg' = [config_set(cfg, key, value).c EXCEPT
                      !.track = [stage |-> "set", key |-> key, value |-> value,
                                 ret |-> config_set(cfg, key, value).ret,
                                 load_ret |-> FALSE]]
        /\ UNCHANGED <<nonCfgVars, hc>>

ConfigDelete ==
    \E key \in DeleteKeys :
        /\ cfg' = [config_delete(cfg, key).c EXCEPT
                      !.track = [NoTrack EXCEPT
                                   !.stage = "config_delete",
                                   !.ret = config_delete(cfg, key).ret]]
        /\ UNCHANGED <<nonCfgVars, hc>>

ConfigGet ==
    \E key \in CfgKeys, value_size \in ValueSizes :
        /\ cfg' = [cfg EXCEPT
                      !.track = [NoTrack EXCEPT
                                   !.stage = "config_get",
                                   !.value = config_get(cfg, key, value_size).value,
                                   !.ret = config_get(cfg, key, value_size).ret]]
        /\ UNCHANGED <<nonCfgVars, hc>>

\* config_save(): the checksum is updated, the sector erased, the record
\* programmed
ConfigSave ==
    /\ cfg.config_initialized
    /\ \E f \in flash_program([cfg.config_data EXCEPT
                                  !.checksum = calculate_checksum(cfg.config_data)]) :
         cfg' = [cfg EXCEPT
                   !.config_data.checksum = calculate_checksum(cfg.config_data),
                   !.flash = f,
                   !.config_dirty = FALSE,
                   !.track = IF cfg.track.stage = "set"
                             THEN [cfg.track EXCEPT !.stage = "saved"]
                             ELSE [NoTrack EXCEPT !.stage = "config_save"]]
    /\ UNCHANGED <<nonCfgVars, hc>>

ConfigLoad ==
    /\ cfg' = [config_load(cfg).c EXCEPT
                  !.track = IF cfg.track.stage = "saved"
                            THEN [cfg.track EXCEPT
                                    !.stage = "loaded",
                                    !.load_ret = config_load(cfg).ret]
                            ELSE [NoTrack EXCEPT
                                    !.stage = "config_load",
                                    !.load_ret = config_load(cfg).ret]]
    /\ UNCHANGED <<nonCfgVars, hc>>

(***************************************************************************)
(* Script evaluator bridge (src/sage/sage_embed.c, PICO_BUILD).  The       *)
(* parser and the interpreter are opaque: a source is the number of its    *)
(* top-level statements, parse() and interpret() take time and nothing     *)
(* else of the bridge's state.  The bridge's own code takes no time.       *)
(***************************************************************************)
HEARTBEAT_INTERVAL_MS == U32(250)

\* sage_result_t; SAGE_ERROR_TIMEOUT has no enumerator in include/sage_embed.h
SAGE_OK            == "SAGE_OK"
SAGE_ERROR_TIMEOUT == "SAGE_ERROR_TIMEOUT"

\* bounds: sage_eval_string and sage_set_execution_timeout calls in one
\* behaviour, and top-level statements in one source
MaxEvalOps == 2
MaxStatements == 2

\* how long one parse() or interpret() call runs, in ms
EvalDurations == {U32(0), U32(400), U32(1000)}

\* timeouts passed to sage_set_execution_timeout
ExecutionTimeouts == {U32(0), U32(1000), U32(5000)}

\* after sage_init(): the default timeout of 5 s, four forced heartbeats
SageInit ==
    sage = [execution_start_time |-> U32(0), max_execution_time_ms |-> U32(5000),
            last_heartbeat_ms |-> <<65535, 60000>>, heartbeat_count |-> 4,
            heartbeat_enabled |-> TRUE,
            pc |-> "idle", left |-> 0, statement_count |-> 0, ret |-> SAGE_OK,
            checks |-> 0, elapsed |-> U32(0), count_at_check |-> 0, ops |-> 0]

\* what a handler of the bridge works on
World == [metrics |-> metrics, wdt_state |-> wdt_state, hw_wdt |-> hw_wdt,
          sage |-> sage]

\* a handler of the bridge returns or reaches a call that takes time
Commit(w) ==
    /\ metrics' = w.metrics
    /\ wdt_state' = w.wdt_state
    /\ hw_wdt' = w.hw_wdt
    /\ sage' = w.sage

sage_force_heartbeat(w) ==
    [wdt_feed_in(supervisor_heartbeat_in(w)) EXCEPT
        !.sage.last_heartbeat_ms = now,
        !.sage.heartbeat_count = @ + 1]

sage_try_heartbeat(w) ==
    IF ~w.sage.heartbeat_enabled THEN w
    ELSE IF Ge32(Sub32(now, w.sage.last_heartbeat_ms), HEARTBEAT_INTERVAL_MS)
    THEN [wdt_feed_in(supervisor_heartbeat_in(w)) EXCEPT
            !.sage.last_heartbeat_ms = now,
            !.sage.heartbeat_count = @ + 1]
    ELSE w

\* sage_check_timeout with > for >=
sage_check_timeout_strict(s) ==
    /\ s.max_execution_time_ms # U32(0)
    /\ Gt32(Sub32(now, s.execution_start_time), s.max_execution_time_ms)

\* sage_check_timeout(ctx) on the context fields of s
sage_check_timeout(s) ==
    /\ s.max_execution_time_ms # U32(0)
    /\ Ge32(Sub32(now, s.execution_start_time), s.max_execution_time_ms)

\* the call of sage_check_timeout at a statement boundary: w with what the
\* call sampled recorded, and the position the loop goes to
Checked(w, go_on) ==
    [w EXCEPT !.sage.checks = @ + 1,
              !.sage.elapsed = Sub32(now, w.sage.execution_start_time),
              !.sage.count_at_check = w.sage.statement_count,
              !.sage.pc = IF sage_check_timeout(w.sage) THEN "done" ELSE go_on,
              !.sage.ret = IF sage_check_timeout(w.sage) THEN SAGE_ERROR_TIMEOUT
                           ELSE @]

\* sage_set_execution_timeout(ctx, timeout_ms), between two evaluations
SageSetExecutionTimeout ==
    /\ sage.pc \in {"idle", "done"}
    /\ sage.ops < MaxEvalOps
    /\ \E timeout_ms \in ExecutionTimeouts :
         sage' = [sage EXCEPT !.max_execution_time_ms = timeout_ms,
                              !.pc = "idle", !.checks = 0, !.ops = @ + 1]
    /\ UNCHANGED <<memVars, schedVars, supVars, fsVars, permVars, cfgVars>>

\* sage_eval_string up to the loop: the start time is recorded, a forced
\* heartbeat, the lexer and the parser are initialised, a heartbeat
EvalStart ==
    /\ ~reset
    /\ sage.pc \in {"idle", "done"}
    /\ sage.ops < MaxEvalOps
    /\ \E n \in 0..MaxStatements :
         Commit(sage_try_heartbeat(sage_force_heartbeat(
                    [World EXCEPT !.sage.execution_start_time = now,
                                  !.sage.left = n,
                                  !.sage.statement_count = 0,
                                  !.sage.checks = 0,
                                  !.sage.ret = SAGE_OK,
                                  !.sage.ops = @ + 1,
                                  !.sage.pc = "check"])))
    /\ UNCHANGED <<now, sup, core0, sup_last, reset, ticks,
                   memVars, schedVars, fsVars, permVars, cfgVars>>

\* the head of the loop: the timeout check before a statement, a heartbeat,
\* and parse() is called
EvalCheck ==
    /\ ~reset
    /\ sage.pc = "check"
    /\ Commit(IF sage_check_timeout(sage) THEN Checked(World, "parsing")
              ELSE sage_try_heartbeat(Checked(World, "parsing")))
    /\ UNCHANGED <<now, sup, core0, sup_last, reset, ticks,
                   memVars, schedVars, fsVars, permVars, cfgVars>>

\* parse() or interpret() runs for d ms; the hardware watchdog resets the
\* chip when its countdown runs down meanwhile
EvalRuns ==
    /\ ~reset
    /\ sage.pc \in {"parsing", "interpreting"}
    /\ \E d \in EvalDurations :
         IF hw_wdt.running
            /\ Ge32(Sub32(Add32(now, d), hw_wdt.last_update), hw_wdt.timeout)
         THEN /\ now' = Add32(hw_wdt.last_update, hw_wdt.timeout)
              /\ reset' = TRUE
              /\ UNCHANGED sage
         ELSE /\ now' = Add32(now, d)
              /\ sage' = [sage EXCEPT !.pc = IF @ = "parsing" THEN "parsed"
                                             ELSE "interpreted"]
              /\ UNCHANGED reset
    /\ UNCHANGED <<hw_wdt, wdt_state, metrics, sup, core0, sup_last, ticks,
                   memVars, schedVars, fsVars, permVars, cfgVars>>

\* parse() has returned: at the end of the input the loop is left, a forced
\* heartbeat, SAGE_OK; otherwise the statement is counted, a heartbeat, a
\* forced one on every tenth statement, and interpret() is called
EvalParsed ==
    /\ ~reset
    /\ sage.pc = "parsed"
    /\ Commit(IF sage.left = 0
              THEN sage_force_heartbeat([World EXCEPT !.sage.pc = "done",
                                                      !.sage.ret = SAGE_OK])
              ELSE IF (sage.statement_count + 1) % 10 = 0
              THEN sage_force_heartbeat(sage_try_heartbeat(
                       [World EXCEPT !.sage.statement_count = @ + 1,
                                     !.sage.pc = "interpreting"]))
              ELSE sage_try_heartbeat(
                       [World EXCEPT !.sage.statement_count = @ + 1,
                                     !.sage.pc = "interpreting"]))
    /\ UNCHANGED <<now, sup, core0, sup_last, reset, ticks,
                   memVars, schedVars, fsVars, permVars, cfgVars>>

\* interpret() has returned: a forced heartbeat and the timeout check after
\* the statement
EvalInterpreted ==
    /\ ~reset
    /\ sage.pc = "interpreted"
    /\ Commit(Checked(sage_force_heartbeat([World EXCEPT !.sage.left = @ - 1]),
                      "check"))
    /\ UNCHANGED <<now, sup, core0, sup_last, reset, ticks,
                   memVars, schedVars, fsVars, permVars, cfgVars>>

(***************************************************************************)
(* Filesystem (include/fs.h, src/drivers/fs/fs_core.c, fs_inode.c,         *)
(* fs_dir.c, fs_file.c)                                                    *)
(***************************************************************************)
FS_BLOCK_SIZE            == 512
FS_SEGMENT_SIZE          == 4096
FS_BLOCKS_PER_SEGMENT    == FS_SEGMENT_SIZE \div FS_BLOCK_SIZE
FS_DEFAULT_MAX_INODES    == 256
\* 0xFFFFFFFF; only ever compared, never computed with, so it is kept as the
\* largest integer available
FS_INVALID_BLOCK         == 2147483647
FS_INVALID_INODE         == 0
FS_SB_BLOCK              == 0
FS_CP0_BLOCK             == 1
FS_CP1_BLOCK             == 2
FS_FIXED_METADATA_BLOCKS == 3
FS_ROOT_INODE            == 2
FS_DIRECT_BLOCKS         == 10
FS_MODE_REG              == 32768
FS_MODE_DIR              == 16384
FS_O_RDONLY              == 0
FS_SEEK_SET              == 0
FS_SEEK_CUR              == 1
FS_SEEK_END              == 2
FS_O_CREAT               == 8

FS_OK                == 0
FS_ERR_NO_SPACE      == -1
FS_ERR_NOT_FOUND     == -2
FS_ERR_EXISTS        == -3
FS_ERR_INVALID_INODE == -4
FS_ERR_INVALID_BLOCK == -5
FS_ERR_IO            == -6
FS_ERR_NOT_DIRECTORY == -7
FS_ERR_CORRUPTED     == -9
FS_ERR_INVALID_ARG   == -10
FS_ERR_UNSUPPORTED   == -11

\* sizeof(struct fs_dirent), packed: 2 + 4 + 1 + 1 + 4
DIRENT_SIZE == 12
\* entries per NAT block: FS_BLOCK_SIZE / sizeof(struct fs_nat_entry)
NAT_ENTRIES_PER_BLOCK == FS_BLOCK_SIZE \div 8
\* entries per SIT block: FS_BLOCK_SIZE / sizeof(struct fs_sit_entry)
SIT_ENTRIES_PER_BLOCK == FS_BLOCK_SIZE \div 4

fs_div_ceil_u32(a, b) == (a + b - 1) \div b

\* the block count the device is formatted with ("fs init 32")
TotalBlocks == 32

(* Byte strings are kept run-length encoded: a sequence of runs [n, v], n > 0
   bytes of value v, adjacent runs differing in v. *)
RECURSIVE RLen(_)
RLen(r) == IF r = <<>> THEN 0 ELSE r[1].n + RLen(Tail(r))

RECURSIVE RNorm(_)
RNorm(r) ==
    IF r = <<>> THEN <<>>
    ELSE IF r[1].n = 0 THEN RNorm(Tail(r))
    ELSE LET t == RNorm(Tail(r))
         IN  IF t # <<>> /\ t[1].v = r[1].v
             THEN <<[n |-> r[1].n + t[1].n, v |-> r[1].v]>> \o Tail(t)
             ELSE <<r[1]>> \o t

RFill(n, v) == IF n = 0 THEN <<>> ELSE <<[n |-> n, v |-> v]>>

RECURSIVE RTake(_, _)
RTake(r, k) ==
    IF k = 0 \/ r = <<>> THEN <<>>
    ELSE IF r[1].n >= k THEN <<[n |-> k, v |-> r[1].v]>>
    ELSE <<r[1]>> \o RTake(Tail(r), k - r[1].n)

RECURSIVE RDrop(_, _)
RDrop(r, k) ==
    IF k = 0 \/ r = <<>> THEN r
    ELSE IF r[1].n > k THEN <<[n |-> r[1].n - k, v |-> r[1].v]>> \o Tail(r)
    ELSE RDrop(Tail(r), k - r[1].n)

RCat(a, b) == RNorm(a \o b)

\* bytes [off, off + len) of r
RSlice(r, off, len) == RTake(RDrop(r, off), len)

\* memcpy(dst + off, src, RLen(src)) on a buffer dst
RPatch(dst, off, src) ==
    RCat(RCat(RTake(dst, off), src), RDrop(dst, off + RLen(src)))

(* Blocks.  A 512-byte block is kept by what was last written to it:
     zero   - never written ("fs init" clears the device)
     sb     - a superblock image (crc computed by fs_finalize_superblock_crc)
     cp     - a checkpoint image (crc computed by fs_finalize_checkpoint_crc)
     nat    - a NAT block: the entries of 64 consecutive node ids
     sit    - a SIT block: the entries of 128 consecutive segments
     inode  - an inode image
     dir    - a block of directory entries
     data   - file bytes *)
ZeroBlock == [kind |-> "zero"]

\* the byte value of a position whose content is not file data
STALE == -1

\* the 512 bytes of a block as fs_read / fs_write see them
BlockBytes(b) ==
    IF b.kind = "data" THEN b.bytes
    ELSE IF b.kind = "zero" THEN RFill(FS_BLOCK_SIZE, 0)
    ELSE RFill(FS_BLOCK_SIZE, STALE)

\* the directory entries of a block as fs_dir_lookup / fs_dir_add /
\* fs_readdir see them: a zeroed block holds none (entry_size == 0)
BlockDirents(b) == IF b.kind = "dir" THEN b.entries ELSE <<>>

(* A call's machine state: the device, struct fs, the blocks whose backend
   calls fail, io, the first failure code a backend call returned during the
   call (0 while none has), and budget, the number of backend writes that
   still reach the device before the power is lost (-1: the power stays),
   and stored, per inode number the image the last successful
   fs_store_inode of that number was called with. *)
fs_read_block_i(m, block) ==
    IF block >= TotalBlocks
    THEN [r |-> FS_ERR_INVALID_BLOCK, blk |-> ZeroBlock,
          m |-> [m EXCEPT !.io = IF @ = 0 THEN FS_ERR_INVALID_BLOCK ELSE @]]
    ELSE IF block \in m.faulty
    THEN [r |-> FS_ERR_IO, blk |-> ZeroBlock,
          m |-> [m EXCEPT !.io = IF @ = 0 THEN FS_ERR_IO ELSE @]]
    ELSE [r |-> FS_OK, blk |-> m.dev[block], m |-> m]

\* what a backend write returns once the power is gone: the write does not
\* reach the device, and the caller, which returns on every failed write,
\* never runs on
POWER_LOST == -100

fs_write_block_i(m, block, buf) ==
    IF m.budget = 0
    THEN [r |-> POWER_LOST, m |-> m]
    ELSE IF block >= TotalBlocks
    THEN [r |-> FS_ERR_INVALID_BLOCK,
          m |-> [m EXCEPT !.io = IF @ = 0 THEN FS_ERR_INVALID_BLOCK ELSE @]]
    ELSE IF block \in m.faulty
    THEN [r |-> FS_ERR_IO,
          m |-> [m EXCEPT !.io = IF @ = 0 THEN FS_ERR_IO ELSE @]]
    ELSE [r |-> FS_OK,
          m |-> [m EXCEPT !.dev[block] = buf,
                          !.budget = IF @ > 0 THEN @ - 1 ELSE @]]

NatNone == [block_addr |-> FS_INVALID_BLOCK, version |-> 0, type |-> 0]

\* fs->nat[i]; the array is kept as the map of its entries that differ from
\* the invalid entry fs_format fills it with
NatGet(nat, i) == IF i \in DOMAIN nat THEN nat[i] ELSE NatNone
NatSet(nat, i, e) == (i :> e) @@ nat

\* the entries of NAT block b of a NAT array
NatSlice(nat, b, total_inodes) ==
    LET ids == {i \in DOMAIN nat :
                  /\ i >= b * NAT_ENTRIES_PER_BLOCK
                  /\ i < (b + 1) * NAT_ENTRIES_PER_BLOCK
                  /\ i < total_inodes}
    IN  [i \in ids |-> nat[i]]

\* the NAT area is written by fs_format and by fs_write_nat only
NatBlockEntries(blk) == IF blk.kind = "nat" THEN blk.entries ELSE <<>>
SitBlockEntries(blk, segs) ==
    IF blk.kind = "sit" THEN blk.entries ELSE [g \in segs |-> 0]

\* fs_write_nat from NAT block b on
RECURSIVE write_nat_from(_, _)
write_nat_from(m, b) ==
    IF b >= m.fs.sb.nat_blocks
    THEN [r |-> FS_OK, m |-> [m EXCEPT !.fs.nat_dirty = FALSE]]
    ELSE LET Written(w) == IF w.r # FS_OK THEN w ELSE write_nat_from(w.m, b + 1)
         IN  Written(fs_write_block_i(m, m.fs.sb.nat_start_block + b,
                        [kind |-> "nat",
                         entries |-> NatSlice(m.fs.nat, b, m.fs.sb.total_inodes)]))

fs_write_nat(m) == write_nat_from(m, 0)

\* fs_read_nat from NAT block b on
RECURSIVE read_nat_from(_, _)
read_nat_from(m, b) ==
    IF b >= m.fs.sb.nat_blocks
    THEN [r |-> FS_OK, m |-> [m EXCEPT !.fs.nat_dirty = FALSE]]
    ELSE LET Got(rd) ==
                 IF rd.r # FS_OK THEN [r |-> rd.r, m |-> rd.m]
                 ELSE read_nat_from(
                        [rd.m EXCEPT !.fs.nat = NatBlockEntries(rd.blk) @@ @], b + 1)
         IN  Got(fs_read_block_i(m, m.fs.sb.nat_start_block + b))

fs_read_nat(m) == read_nat_from(m, 0)

\* the segments whose entries SIT block b holds
SitSegs(b, total_segments) ==
    {g \in 0..(total_segments - 1) :
        g >= b * SIT_ENTRIES_PER_BLOCK /\ g < (b + 1) * SIT_ENTRIES_PER_BLOCK}

RECURSIVE write_sit_from(_, _)
write_sit_from(m, b) ==
    IF b >= m.fs.sb.sit_blocks
    THEN [r |-> FS_OK, m |-> [m EXCEPT !.fs.sit_dirty = FALSE]]
    ELSE LET Written(w) == IF w.r # FS_OK THEN w ELSE write_sit_from(w.m, b + 1)
         IN  Written(fs_write_block_i(m, m.fs.sb.sit_start_block + b,
                        [kind |-> "sit",
                         entries |-> [g \in SitSegs(b, m.fs.sb.total_segments)
                                        |-> m.fs.sit[g]]]))

fs_write_sit(m) == write_sit_from(m, 0)

RECURSIVE read_sit_from(_, _)
read_sit_from(m, b) ==
    IF b >= m.fs.sb.sit_blocks
    THEN [r |-> FS_OK, m |-> [m EXCEPT !.fs.sit_dirty = FALSE]]
    ELSE LET segs == SitSegs(b, m.fs.sb.total_segments)
             Got(rd) ==
                 IF rd.r # FS_OK THEN [r |-> rd.r, m |-> rd.m]
                 ELSE read_sit_from(
                        [rd.m EXCEPT !.fs.sit = SitBlockEntries(rd.blk, segs) @@ @],
                        b + 1)
         IN  Got(fs_read_block_i(m, m.fs.sb.sit_start_block + b))

fs_read_sit(m) == read_sit_from(m, 0)

\* fs_mark_block_valid: [r, m]
fs_mark_block_valid(m, block_addr) ==
    LET seg == block_addr \div FS_BLOCKS_PER_SEGMENT
    IN  IF block_addr >= m.fs.sb.total_blocks \/ seg >= m.fs.sb.total_segments
        THEN [r |-> FS_ERR_INVALID_BLOCK, m |-> m]
        ELSE IF m.fs.sit[seg] < FS_BLOCKS_PER_SEGMENT
        THEN [r |-> FS_OK,
              m |-> [m EXCEPT !.fs.sit[seg] = @ + 1, !.fs.sit_dirty = TRUE]]
        ELSE [r |-> FS_ERR_CORRUPTED, m |-> m]

\* fs_find_first_free_data_block on struct fs f
fs_find_first_free_data_block(f) ==
    LET Candidate(seg) == seg * FS_BLOCKS_PER_SEGMENT + f.sit[seg]
        ok == {seg \in (f.sb.main_start_block \div FS_BLOCKS_PER_SEGMENT)
                           .. (f.sb.total_segments - 1) :
                 /\ f.sit[seg] < FS_BLOCKS_PER_SEGMENT
                 /\ Candidate(seg) >= f.sb.main_start_block
                 /\ Candidate(seg) < f.sb.total_blocks}
    IN  IF ok = {} THEN FS_INVALID_BLOCK
        ELSE Candidate(CHOOSE seg \in ok : \A o \in ok : seg <= o)

\* fs_write_superblock
fs_write_superblock(m) ==
    LET Written(w) ==
            IF w.r = FS_OK THEN [r |-> FS_OK, m |-> [w.m EXCEPT !.fs.sb_dirty = FALSE]]
            ELSE w
    IN  Written(fs_write_block_i(m, FS_SB_BLOCK, [kind |-> "sb", sb |-> m.fs.sb]))

\* struct fs_superblock of a block that holds no superblock image: the magic
\* does not match
NoSb == [total_blocks |-> 0, total_segments |-> 0, total_inodes |-> 0,
         root_inode |-> 0, nat_start_block |-> 0, nat_blocks |-> 0,
         sit_start_block |-> 0, sit_blocks |-> 0, main_start_block |-> 0,
         mount_count |-> 0]

\* fs_read_superblock: the block is copied into fs->sb before it is validated
fs_read_superblock(m) ==
    LET Got(rd) ==
            IF rd.r # FS_OK THEN [r |-> rd.r, m |-> rd.m]
            ELSE IF rd.blk.kind = "sb"
            THEN [r |-> FS_OK, m |-> [rd.m EXCEPT !.fs.sb = rd.blk.sb]]
            ELSE [r |-> FS_ERR_CORRUPTED, m |-> [rd.m EXCEPT !.fs.sb = NoSb]]
    IN  Got(fs_read_block_i(m, FS_SB_BLOCK))

\* fs_write_checkpoint_block(fs, which)
fs_write_checkpoint_block(m, which) ==
    IF which = 0
    THEN fs_write_block_i(m, FS_CP0_BLOCK, [kind |-> "cp", cp |-> m.fs.cp0])
    ELSE fs_write_block_i(m, FS_CP1_BLOCK, [kind |-> "cp", cp |-> m.fs.cp1])

NoCp == [checkpoint_num |-> 0, free_blocks |-> U32(0), next_node_id |-> 0]

\* fs_read_checkpoint_block without the crc comparison
fs_read_checkpoint_block_unchecked(m, which) ==
    LET Got(rd) ==
            IF rd.r # FS_OK THEN [r |-> rd.r, m |-> rd.m, cp |-> NoCp]
            ELSE [r |-> FS_OK, m |-> rd.m,
                  cp |-> IF rd.blk.kind = "cp" THEN rd.blk.cp ELSE NoCp]
    IN  Got(fs_read_block_i(m, IF which = 0 THEN FS_CP0_BLOCK ELSE FS_CP1_BLOCK))

\* fs_read_checkpoint_block: [r, m, cp]; a block that holds no checkpoint
\* image fails the crc comparison
fs_read_checkpoint_block(m, which) ==
    LET Got(rd) ==
            IF rd.r # FS_OK THEN [r |-> rd.r, m |-> rd.m, cp |-> NoCp]
            ELSE IF rd.blk.kind = "cp"
            THEN [r |-> FS_OK, m |-> rd.m, cp |-> rd.blk.cp]
            ELSE [r |-> FS_ERR_CORRUPTED, m |-> rd.m, cp |-> NoCp]
    IN  Got(fs_read_block_i(m, IF which = 0 THEN FS_CP0_BLOCK ELSE FS_CP1_BLOCK))

\* struct fs after memset(fs, 0, sizeof(*fs))
FsZero == [sb |-> NoSb, cp0 |-> NoCp, cp1 |-> NoCp, active_cp |-> 0,
           nat |-> <<>>, sit |-> <<>>, free_blocks_count |-> U32(0),
           sb_dirty |-> FALSE, cp_dirty |-> FALSE,
           nat_dirty |-> FALSE, sit_dirty |-> FALSE]

fs_nat_blocks_for_inodes(total_inodes) ==
    fs_div_ceil_u32(total_inodes * 8, FS_BLOCK_SIZE)

fs_sit_blocks_for_segments(total_segments) ==
    fs_div_ceil_u32(total_segments * 4, FS_BLOCK_SIZE)

\* struct fs_inode; the timestamps, which the code sets to 0, are left out
Inode(inode_num, mode, link_count, parent_inode, direct_fill) ==
    [inode_num |-> inode_num, mode |-> mode, size |-> 0,
     link_count |-> link_count, parent_inode |-> parent_inode,
     direct |-> [i \in 0..(FS_DIRECT_BLOCKS - 1) |-> direct_fill]]

\* the loop of fs_format that reserves the metadata blocks [b, upto)
RECURSIVE mark_blocks_valid(_, _, _)
mark_blocks_valid(m, b, upto) ==
    IF b >= upto THEN m
    ELSE mark_blocks_valid(fs_mark_block_valid(m, b).m, b + 1, upto)

\* fs_format: [r, m]
fs_format(m, total_blocks) ==
    IF total_blocks < FS_FIXED_METADATA_BLOCKS + 8
    THEN [r |-> FS_ERR_INVALID_ARG, m |-> m]
    ELSE
    LET segs == fs_div_ceil_u32(total_blocks, FS_BLOCKS_PER_SEGMENT)
        nat_blocks == fs_nat_blocks_for_inodes(FS_DEFAULT_MAX_INODES)
        sit_blocks == fs_sit_blocks_for_segments(segs)
        sb == [total_blocks |-> total_blocks, total_segments |-> segs,
               total_inodes |-> FS_DEFAULT_MAX_INODES,
               root_inode |-> FS_ROOT_INODE,
               nat_start_block |-> FS_FIXED_METADATA_BLOCKS,
               nat_blocks |-> nat_blocks,
               sit_start_block |-> FS_FIXED_METADATA_BLOCKS + nat_blocks,
               sit_blocks |-> sit_blocks,
               main_start_block |->
                   FS_FIXED_METADATA_BLOCKS + nat_blocks + sit_blocks,
               mount_count |-> 0]
        m0 == [m EXCEPT !.fs = [FsZero EXCEPT !.sb = sb]]
        m1 == [m0 EXCEPT !.fs.sit = [g \in 0..(segs - 1) |-> 0],
                         !.fs.cp0.checkpoint_num = 1,
                         !.fs.cp1.checkpoint_num = 0]
        free == U32(total_blocks - sb.main_start_block)
        root == Inode(FS_ROOT_INODE, FS_MODE_DIR, 2, FS_ROOT_INODE, 0)
        \* the superblock, the NAT, the SIT and both checkpoints
        Done(m7) ==
            [r |-> FS_OK,
             m |-> [m7 EXCEPT !.fs.active_cp = 0,
                              !.fs.sb_dirty = FALSE, !.fs.cp_dirty = FALSE,
                              !.fs.nat_dirty = FALSE, !.fs.sit_dirty = FALSE]]
        Cp1(w) == IF w.r # FS_OK THEN w ELSE Done(w.m)
        Cp0(w) == IF w.r # FS_OK THEN w ELSE Cp1(fs_write_checkpoint_block(w.m, 1))
        Sit(w) == IF w.r # FS_OK THEN w ELSE Cp0(fs_write_checkpoint_block(w.m, 0))
        Nat_(w) == IF w.r # FS_OK THEN w ELSE Sit(fs_write_sit(w.m))
        Sb(w) == IF w.r # FS_OK THEN w ELSE Nat_(fs_write_nat(w.m))
        Persist(w) ==
            IF w.r # FS_OK THEN w
            ELSE Sb(fs_write_superblock(
                     [w.m EXCEPT
                        !.fs.free_blocks_count = Sub32(@, U32(1)),
                        !.fs.cp0.free_blocks = Sub32(w.m.fs.free_blocks_count, U32(1)),
                        !.fs.sb_dirty = TRUE, !.fs.cp_dirty = TRUE,
                        !.fs.sit_dirty = TRUE]))
        \* the root inode, in the first free block of the main area
        Root(m3, root_blk) ==
            IF root_blk = FS_INVALID_BLOCK THEN [r |-> FS_ERR_NO_SPACE, m |-> m3]
            ELSE Persist(fs_write_block_i(
                             [fs_mark_block_valid(m3, root_blk).m EXCEPT
                                !.fs.nat = NatSet(@, FS_ROOT_INODE,
                                             [block_addr |-> root_blk,
                                              version |-> 1, type |-> 1]),
                                !.fs.nat_dirty = TRUE],
                             root_blk, [kind |-> "inode", ino |-> root]))
        Counted(m3) == Root(m3, fs_find_first_free_data_block(m3.fs))
        Reserved(m2) ==
            Counted([m2 EXCEPT !.fs.free_blocks_count = free,
                               !.fs.cp0.free_blocks = free,
                               !.fs.cp0.next_node_id = FS_ROOT_INODE + 1])
    IN
    IF sb.main_start_block >= sb.total_blocks
    THEN [r |-> FS_ERR_NO_SPACE, m |-> m0]
    ELSE Reserved(mark_blocks_valid(m1, 0, sb.main_start_block))

\* fs_mount: [r, m]
\* fs_mount's choice between two checkpoints that both validate
mount_active_slot0(a, b) == 0

mount_active(a, b) == IF a.checkpoint_num >= b.checkpoint_num THEN 0 ELSE 1

fs_mount(m) ==
    LET Done(m3) ==
            [r |-> FS_OK,
             m |-> [m3 EXCEPT !.fs.sb.mount_count = @ + 1,
                              !.fs.sb_dirty = TRUE,
                              !.fs.free_blocks_count =
                                  IF m3.fs.active_cp = 0 THEN m3.fs.cp0.free_blocks
                                  ELSE m3.fs.cp1.free_blocks]]
        Sit(rs) == IF rs.r # FS_OK THEN rs ELSE Done(rs.m)
        Nat_(rn) == IF rn.r # FS_OK THEN rn ELSE Sit(fs_read_sit(rn.m))
        \* a and b: what reading checkpoint slot 0 and slot 1 returned
        Chosen(a, b) ==
            IF a.r # FS_OK /\ b.r # FS_OK THEN [r |-> FS_ERR_CORRUPTED, m |-> b.m]
            ELSE Nat_(fs_read_nat(
                     IF a.r = FS_OK /\ b.r = FS_OK
                     THEN [b.m EXCEPT !.fs.cp0 = a.cp, !.fs.cp1 = b.cp,
                             !.fs.active_cp = mount_active(a.cp, b.cp)]
                     ELSE IF a.r = FS_OK
                     THEN [b.m EXCEPT !.fs.cp0 = a.cp, !.fs.active_cp = 0]
                     ELSE [b.m EXCEPT !.fs.cp1 = b.cp, !.fs.active_cp = 1]))
        Slot1(a) == Chosen(a, fs_read_checkpoint_block(a.m, 1))
        \* calloc: the disk's entries replace every entry of nat and sit below
        Super(s) ==
            IF s.r # FS_OK THEN s
            ELSE Slot1(fs_read_checkpoint_block(
                     [s.m EXCEPT !.fs.nat = <<>>,
                                 !.fs.sit = [g \in 0..(s.m.fs.sb.total_segments - 1)
                                               |-> 0]],
                     0))
    IN  Super(fs_read_superblock(m))

\* fs_sync: [r, m]
fs_sync(m) ==
    LET SbDone(w) ==
            IF w.r # FS_OK THEN w
            ELSE [r |-> FS_OK,
                  m |-> [w.m EXCEPT !.fs.cp_dirty = FALSE, !.fs.sb_dirty = FALSE]]
        Sb(m3) == SbDone(fs_write_superblock([m3 EXCEPT !.fs.sb_dirty = TRUE]))
        CpDone(w, next_cp) ==
            IF w.r # FS_OK THEN w ELSE Sb([w.m EXCEPT !.fs.active_cp = next_cp])
        Cp(m2) ==
            IF m2.fs.active_cp = 0
            THEN CpDone(fs_write_checkpoint_block(
                            [m2 EXCEPT !.fs.cp1 =
                               [m2.fs.cp0 EXCEPT
                                  !.checkpoint_num = m2.fs.cp0.checkpoint_num + 1,
                                  !.free_blocks = m2.fs.free_blocks_count]],
                            1),
                        1)
            ELSE CpDone(fs_write_checkpoint_block(
                            [m2 EXCEPT !.fs.cp0 =
                               [m2.fs.cp1 EXCEPT
                                  !.checkpoint_num = m2.fs.cp1.checkpoint_num + 1,
                                  !.free_blocks = m2.fs.free_blocks_count]],
                            0),
                        0)
        SitDone(w) == IF w.r # FS_OK THEN w ELSE Cp(w.m)
        Sit(m1) == IF m1.fs.sit_dirty THEN SitDone(fs_write_sit(m1)) ELSE Cp(m1)
        NatDone(w) == IF w.r # FS_OK THEN w ELSE Sit(w.m)
    IN  IF m.fs.nat_dirty THEN NatDone(fs_write_nat(m)) ELSE Sit(m)

NoInode == Inode(0, 0, 0, 0, 0)

\* fs_load_inode: [r, m, ino].  A block that holds no inode image (a zeroed
\* block, file bytes, directory entries) has other bytes where inode_num is.
fs_load_inode(m, ino) ==
    IF ino >= m.fs.sb.total_inodes \/ ino = 0
    THEN [r |-> FS_ERR_INVALID_INODE, m |-> m, ino |-> NoInode]
    ELSE LET blk == NatGet(m.fs.nat, ino).block_addr
             Got(rd) ==
                 IF rd.r # FS_OK THEN [r |-> rd.r, m |-> rd.m, ino |-> NoInode]
                 ELSE IF rd.blk.kind = "inode" /\ rd.blk.ino.inode_num = ino
                 THEN [r |-> FS_OK, m |-> rd.m, ino |-> rd.blk.ino]
                 ELSE [r |-> FS_ERR_CORRUPTED, m |-> rd.m, ino |-> NoInode]
         IN  IF blk = FS_INVALID_BLOCK
             THEN [r |-> FS_ERR_INVALID_INODE, m |-> m, ino |-> NoInode]
             ELSE Got(fs_read_block_i(m, blk))

\* fs_store_inode that writes the image to a fresh block and leaves the
\* NAT entry's block address as it was
fs_store_inode_stale_nat(m, in) ==
    LET ino == in.inode_num
        Written(w, blk) ==
            IF w.r # FS_OK THEN w
            ELSE [r |-> FS_OK,
                  m |-> [fs_mark_block_valid(w.m, blk).m EXCEPT
                           !.fs.free_blocks_count = Sub32(@, U32(1)),
                           !.fs.nat = NatSet(@, ino,
                                        [NatGet(w.m.fs.nat, ino) EXCEPT
                                           !.version = (@ + 1) % 65536,
                                           !.type = 1]),
                           !.fs.nat_dirty = TRUE,
                           !.stored = (ino :> in) @@ @]]
        Found(blk) ==
            IF blk = FS_INVALID_BLOCK THEN [r |-> FS_ERR_NO_SPACE, m |-> m]
            ELSE Written(fs_write_block_i(m, blk, [kind |-> "inode", ino |-> in]), blk)
    IN  IF ino >= m.fs.sb.total_inodes \/ ino = 0
        THEN [r |-> FS_ERR_INVALID_INODE, m |-> m]
        ELSE Found(fs_find_first_free_data_block(m.fs))

\* fs_store_inode: [r, m]
fs_store_inode(m, in) ==
    LET ino == in.inode_num
        Written(w, blk) ==
            IF w.r # FS_OK THEN w
            ELSE [r |-> FS_OK,
                  m |-> [fs_mark_block_valid(w.m, blk).m EXCEPT
                           !.fs.free_blocks_count = Sub32(@, U32(1)),
                           !.fs.nat = NatSet(@, ino,
                                        [block_addr |-> blk,
                                         version |->
                                            (NatGet(w.m.fs.nat, ino).version + 1) % 65536,
                                         type |-> 1]),
                           !.fs.nat_dirty = TRUE,
                           !.stored = (ino :> in) @@ @]]
        Found(blk) ==
            IF blk = FS_INVALID_BLOCK THEN [r |-> FS_ERR_NO_SPACE, m |-> m]
            ELSE Written(fs_write_block_i(m, blk, [kind |-> "inode", ino |-> in]), blk)
    IN  IF ino >= m.fs.sb.total_inodes \/ ino = 0
        THEN [r |-> FS_ERR_INVALID_INODE, m |-> m]
        ELSE Found(fs_find_first_free_data_block(m.fs))

\* fs_bmap: [r, m, ino, phys]
fs_bmap(m, ino, logical_block, create) ==
    LET Found(new) ==
            IF new = FS_INVALID_BLOCK
            THEN [r |-> FS_ERR_NO_SPACE, m |-> m, ino |-> ino,
                  phys |-> FS_INVALID_BLOCK]
            ELSE [r |-> FS_OK,
                  m |-> [fs_mark_block_valid(m, new).m EXCEPT
                           !.fs.free_blocks_count = Sub32(@, U32(1))],
                  ino |-> [ino EXCEPT !.direct[logical_block] = new],
                  phys |-> new]
        Mapped(blk) ==
            IF blk # FS_INVALID_BLOCK /\ blk # 0
            THEN [r |-> FS_OK, m |-> m, ino |-> ino, phys |-> blk]
            ELSE IF ~create
            THEN [r |-> FS_OK, m |-> m, ino |-> ino, phys |-> FS_INVALID_BLOCK]
            ELSE Found(fs_find_first_free_data_block(m.fs))
    IN  IF logical_block >= FS_DIRECT_BLOCKS
        THEN [r |-> FS_ERR_UNSUPPORTED, m |-> m, ino |-> ino,
              phys |-> FS_INVALID_BLOCK]
        ELSE Mapped(ino.direct[logical_block])

\* the characters of the names the callers use, and their codes
CharCode == ("a" :> 97) @@ ("b" :> 98) @@ ("d" :> 100) @@ ("f" :> 102)
                @@ ("/" :> 47)

\* fs_name_hash: djb2 over the characters of name, in uint32_t (the hash so
\* far is bound as a value before the next character is taken)
RECURSIVE name_hash_from(_, _)
name_hash_from(h, name) ==
    IF name = <<>> THEN h
    ELSE CHOOSE r \in {name_hash_from(h1, Tail(name)) :
                         h1 \in {Add32(Mul32(h, U32(33)),
                                       U32(CharCode[Head(name)]))}} : TRUE

fs_name_hash(name) == name_hash_from(U32(5381), name)

\* sizeof(struct fs_dirent) + name_len, rounded up to a multiple of 4
rec_len_of(name_len) ==
    LET n == DIRENT_SIZE + name_len
    IN  IF n % 4 # 0 THEN ((n + 3) \div 4) * 4 ELSE n

\* the entry walk of fs_dir_lookup over one block: the inode number of the
\* entry that matches, or FS_INVALID_INODE with found = FALSE
RECURSIVE dir_scan(_, _, _, _, _)
dir_scan(entries, i, off, hash, name) ==
    IF off + DIRENT_SIZE > FS_BLOCK_SIZE \/ i > Len(entries)
    THEN [found |-> FALSE, child |-> FS_INVALID_INODE]
    ELSE LET de == entries[i] IN
         IF /\ de.name_len # 0
            /\ de.hash = hash
            /\ de.name_len < de.entry_size
            /\ de.name = name
         THEN [found |-> TRUE, child |-> de.inode_num]
         ELSE dir_scan(entries, i + 1, off + de.entry_size, hash, name)

\* fs_dir_lookup from logical block lb on: [r, m, child]
RECURSIVE dir_lookup_from(_, _, _, _, _)
dir_lookup_from(m, dir_ino, name, lb, blocks) ==
    LET Got(rd) ==
            IF rd.r # FS_OK THEN [r |-> rd.r, m |-> rd.m, child |-> FS_INVALID_INODE]
            ELSE LET Scanned(hit) ==
                         IF hit.found
                         THEN [r |-> FS_OK, m |-> rd.m, child |-> hit.child]
                         ELSE dir_lookup_from(rd.m, dir_ino, name, lb + 1, blocks)
                 IN  Scanned(dir_scan(BlockDirents(rd.blk), 1, 0,
                                      fs_name_hash(name), name))
        Mapped(bm) ==
            IF bm.r # FS_OK THEN [r |-> bm.r, m |-> bm.m, child |-> FS_INVALID_INODE]
            ELSE IF bm.phys = FS_INVALID_BLOCK
            THEN dir_lookup_from(bm.m, dir_ino, name, lb + 1, blocks)
            ELSE Got(fs_read_block_i(bm.m, bm.phys))
    IN  IF lb >= blocks
        THEN [r |-> FS_ERR_NOT_FOUND, m |-> m, child |-> FS_INVALID_INODE]
        ELSE Mapped(fs_bmap(m, dir_ino, lb, FALSE))

fs_dir_lookup(m, dir_ino, name) ==
    IF dir_ino.mode % (2 * FS_MODE_DIR) < FS_MODE_DIR
    THEN [r |-> FS_ERR_NOT_DIRECTORY, m |-> m, child |-> FS_INVALID_INODE]
    ELSE dir_lookup_from(m, dir_ino, name, 0,
                         fs_div_ceil_u32(dir_ino.size, FS_BLOCK_SIZE))

\* the entry walk of fs_dir_add over one block buffer: the buffer with the
\* new entry placed (ok), or ok = FALSE when the block has no room
RECURSIVE dir_place(_, _, _, _, _)
dir_place(entries, i, off, rec_len, de) ==
    IF off + DIRENT_SIZE > FS_BLOCK_SIZE
    THEN [ok |-> FALSE, entries |-> entries]
    ELSE IF i > Len(entries)
    THEN \* entry_size == 0: free space from here to the end of the block
         IF FS_BLOCK_SIZE - off < rec_len
         THEN [ok |-> FALSE, entries |-> entries]
         ELSE [ok |-> TRUE,
               entries |-> Append(entries,
                              [de EXCEPT !.entry_size = FS_BLOCK_SIZE - off])]
    ELSE LET e == entries[i]
             used == rec_len_of(e.name_len)
         IN  IF e.entry_size > used /\ e.entry_size - used >= rec_len
             THEN [ok |-> TRUE,
                   entries |-> SubSeq(entries, 1, i - 1)
                               \o <<[e EXCEPT !.entry_size = used],
                                    [de EXCEPT !.entry_size = e.entry_size - used]>>
                               \o SubSeq(entries, i + 1, Len(entries))]
             ELSE dir_place(entries, i + 1, off + e.entry_size, rec_len, de)

\* fs_dir_add from logical block lb on: [r, m, dir]
RECURSIVE dir_add_from(_, _, _, _, _)
dir_add_from(m, dir_ino, de, lb, file_blocks) ==
    LET \* write_out, with the entries of the block the new entry was placed in
        Last_(last, dir1, entries) ==
            IF last.r # FS_OK \/ last.phys = FS_INVALID_BLOCK
            THEN [r |-> FS_ERR_CORRUPTED, m |-> last.m, dir |-> dir1]
            ELSE LET Written(w) == [r |-> w.r, m |-> w.m, dir |-> dir1]
                 IN  Written(fs_write_block_i(last.m, last.phys,
                                 [kind |-> "dir", entries |-> entries]))
        Sized(m1, dir1, entries) ==
            LET cur_blocks == fs_div_ceil_u32(dir1.size, FS_BLOCK_SIZE)
                last_lb == IF cur_blocks = 0 THEN 0 ELSE cur_blocks - 1
            IN  Last_(fs_bmap(m1, dir1, last_lb, FALSE), dir1, entries)
        write_out(m1, dir, entries) ==
            LET new_size == fs_div_ceil_u32(dir.size, FS_BLOCK_SIZE) * FS_BLOCK_SIZE
                size1 == IF new_size = 0 THEN FS_BLOCK_SIZE ELSE new_size
            IN  Sized(m1, IF size1 > dir.size THEN [dir EXCEPT !.size = size1]
                          ELSE dir,
                      entries)
        Placed(placed, m1, dir) ==
            IF ~placed.ok THEN dir_add_from(m1, dir, de, lb + 1, lb + 1)
            ELSE write_out(m1, dir, placed.entries)
        Got(rd, dir) ==
            IF rd.r # FS_OK THEN [r |-> rd.r, m |-> rd.m, dir |-> dir]
            ELSE Placed(dir_place(BlockDirents(rd.blk), 1, 0,
                                  rec_len_of(de.name_len), de),
                        rd.m, dir)
        Mapped(bm) ==
            IF bm.r # FS_OK THEN [r |-> bm.r, m |-> bm.m, dir |-> bm.ino]
            ELSE IF bm.phys = FS_INVALID_BLOCK
            THEN [r |-> FS_ERR_NO_SPACE, m |-> bm.m, dir |-> bm.ino]
            ELSE Got(IF lb >= file_blocks
                     THEN [r |-> FS_OK, blk |-> ZeroBlock, m |-> bm.m]
                     ELSE fs_read_block_i(bm.m, bm.phys),
                     bm.ino)
    IN  Mapped(fs_bmap(m, dir_ino, lb, TRUE))

fs_dir_add(m, dir_ino, name, child_ino, type) ==
    IF dir_ino.mode % (2 * FS_MODE_DIR) < FS_MODE_DIR
    THEN [r |-> FS_ERR_NOT_DIRECTORY, m |-> m, dir |-> dir_ino]
    ELSE IF Len(name) % 256 = 0
    THEN [r |-> FS_ERR_INVALID_ARG, m |-> m, dir |-> dir_ino]
    ELSE dir_add_from(m, dir_ino,
             [entry_size |-> 0, inode_num |-> child_ino,
              name_len |-> Len(name) % 256, type |-> type,
              hash |-> fs_name_hash(name), name |-> name],
             0, fs_div_ceil_u32(dir_ino.size, FS_BLOCK_SIZE))

\* a path is the sequence of its characters
RECURSIVE SkipSlashes(_)
SkipSlashes(p) == IF p # <<>> /\ Head(p) = "/" THEN SkipSlashes(Tail(p)) ELSE p

\* sizeof(comp) and sizeof(name) in fs_resolve_path and its callers
COMP_SIZE == 64

\* the copy loop of next_component: the characters copied before a '/', the
\* end of the path or the end of out
RECURSIVE CompLen(_, _)
CompLen(p, i) ==
    IF p # <<>> /\ Head(p) # "/" /\ i + 1 < COMP_SIZE
    THEN CompLen(Tail(p), i + 1) ELSE i

\* next_component: null, or the component copied to out and the rest of p
next_component(p) ==
    LET q == SkipSlashes(p) IN
    IF q = <<>> THEN [null |-> TRUE, comp |-> <<>>, rest |-> <<>>]
    ELSE LET n == CompLen(q, 0)
         IN  [null |-> FALSE, comp |-> SubSeq(q, 1, n),
              rest |-> SkipSlashes(SubSeq(q, n + 1, Len(q)))]

(* fs_resolve_path: [r, m, ino, parent, last_name], and two observations of
   the walk for the callers' properties: lookup_r, what the failed
   fs_dir_lookup returned (FS_OK when none failed), and more, whether path
   components follow the one that failed. *)
RECURSIVE resolve_from(_, _, _, _, _)
resolve_from(m, cur, cur_ino, comp, next) ==
    LET Loaded(ld, child) ==
            IF ld.r # FS_OK
            THEN [r |-> ld.r, m |-> ld.m, ino |-> FS_INVALID_INODE,
                  parent |-> cur_ino, last_name |-> <<>>,
                  lookup_r |-> FS_OK, more |-> FALSE]
            ELSE LET Next_(nc) ==
                         IF nc.null
                         THEN [r |-> FS_OK, m |-> ld.m, ino |-> child,
                               parent |-> cur_ino, last_name |-> <<>>,
                               lookup_r |-> FS_OK, more |-> FALSE]
                         ELSE resolve_from(ld.m, ld.ino, child, nc.comp, nc.rest)
                 IN  Next_(next_component(next))
        Looked(lk) ==
            IF lk.r # FS_OK
            THEN [r |-> FS_ERR_NOT_FOUND, m |-> lk.m, ino |-> FS_INVALID_INODE,
                  parent |-> cur_ino, last_name |-> comp,
                  lookup_r |-> lk.r, more |-> ~next_component(next).null]
            ELSE Loaded(fs_load_inode(lk.m, lk.child), lk.child)
    IN  Looked(fs_dir_lookup(m, cur, comp))

fs_resolve_path(m, path) ==
    LET Loaded(ld) ==
            IF ld.r # FS_OK
            THEN [r |-> ld.r, m |-> ld.m, ino |-> FS_INVALID_INODE,
                  parent |-> FS_INVALID_INODE, last_name |-> <<>>,
                  lookup_r |-> FS_OK, more |-> FALSE]
            ELSE LET First(nc) ==
                         IF nc.null
                         THEN [r |-> FS_OK, m |-> ld.m, ino |-> FS_ROOT_INODE,
                               parent |-> FS_ROOT_INODE, last_name |-> <<>>,
                               lookup_r |-> FS_OK, more |-> FALSE]
                         ELSE resolve_from(ld.m, ld.ino, FS_ROOT_INODE,
                                           nc.comp, nc.rest)
                 IN  First(next_component(path))
    IN  IF path = <<>> \/ Head(path) # "/"
        THEN [r |-> FS_ERR_INVALID_ARG, m |-> m, ino |-> FS_INVALID_INODE,
              parent |-> FS_INVALID_INODE, last_name |-> <<>>,
              lookup_r |-> FS_OK, more |-> FALSE]
        ELSE Loaded(fs_load_inode(m, FS_ROOT_INODE))

\* the "naive scan" of fs_open and fs_mkdir for a free inode number
find_free_inode(f) ==
    LET free == {i \in 1..(f.sb.total_inodes - 1) :
                   NatGet(f.nat, i).block_addr = FS_INVALID_BLOCK}
    IN  IF free = {} THEN FS_INVALID_INODE
        ELSE CHOOSE i \in free : \A j \in free : i <= j

\* the creation both fs_open and fs_mkdir perform once the path did not
\* resolve: [r, m, ino]
create_node(m, parent, name, mode, link_count, type) ==
    LET ParentStored(sp, new_ino) ==
            IF sp.r # FS_OK THEN [r |-> sp.r, m |-> sp.m, ino |-> FS_INVALID_INODE]
            ELSE [r |-> FS_OK, m |-> sp.m, ino |-> new_ino]
        Added(ad, new_ino) ==
            IF ad.r # FS_OK THEN [r |-> ad.r, m |-> ad.m, ino |-> FS_INVALID_INODE]
            ELSE ParentStored(fs_store_inode(ad.m, ad.dir), new_ino)
        Stored(st, parent_ino, new_ino) ==
            IF st.r # FS_OK THEN [r |-> st.r, m |-> st.m, ino |-> FS_INVALID_INODE]
            ELSE Added(fs_dir_add(st.m, parent_ino, name, new_ino, type), new_ino)
        Free(pl, new_ino) ==
            IF new_ino = FS_INVALID_INODE
            THEN [r |-> FS_ERR_NO_SPACE, m |-> pl.m, ino |-> FS_INVALID_INODE]
            ELSE Stored(fs_store_inode(pl.m,
                            Inode(new_ino, mode, link_count, parent,
                                  FS_INVALID_BLOCK)),
                        pl.ino, new_ino)
        Loaded(pl) ==
            IF pl.r # FS_OK THEN [r |-> pl.r, m |-> pl.m, ino |-> FS_INVALID_INODE]
            ELSE IF pl.ino.mode % (2 * FS_MODE_DIR) < FS_MODE_DIR
            THEN [r |-> FS_ERR_NOT_DIRECTORY, m |-> pl.m, ino |-> FS_INVALID_INODE]
            ELSE Free(pl, find_free_inode(pl.m.fs))
    IN  IF parent = FS_INVALID_INODE
        THEN [r |-> FS_ERR_INVALID_ARG, m |-> m, ino |-> FS_INVALID_INODE]
        ELSE Loaded(fs_load_inode(m, parent))

\* fs_open: [r, m, fd, res]; res is what fs_resolve_path returned
fs_open(m, path, flags, fd) ==
    LET Created(c, res) ==
            IF c.r # FS_OK THEN [r |-> c.r, m |-> c.m, fd |-> fd, res |-> res]
            ELSE [r |-> FS_OK, m |-> c.m, res |-> res,
                  fd |-> [inode_num |-> c.ino, position |-> 0, flags |-> flags]]
        Resolved(res) ==
            IF res.r = FS_ERR_NOT_FOUND /\ (flags \div FS_O_CREAT) % 2 = 1
            THEN Created(create_node(res.m, res.parent, res.last_name,
                                     FS_MODE_REG, 1, 1),
                         res)
            ELSE IF res.r # FS_OK
            THEN [r |-> res.r, m |-> res.m, fd |-> fd, res |-> res]
            ELSE [r |-> FS_OK, m |-> res.m, res |-> res,
                  fd |-> [inode_num |-> res.ino, position |-> 0, flags |-> flags]]
    IN  Resolved(fs_resolve_path(m, path))

\* fs_mkdir: [r, m]
fs_mkdir(m, path) ==
    LET Created(c) == [r |-> c.r, m |-> c.m]
        Resolved(res) ==
            IF res.r = FS_OK THEN [r |-> FS_ERR_EXISTS, m |-> res.m]
            ELSE IF res.r # FS_ERR_NOT_FOUND THEN [r |-> res.r, m |-> res.m]
            ELSE Created(create_node(res.m, res.parent, res.last_name,
                                     FS_MODE_DIR, 2, 2))
    IN  Resolved(fs_resolve_path(m, path))

\* the copy loop of fs_read: [r, m, data]
RECURSIVE read_from(_, _, _, _, _, _)
read_from(m, ino, position, done, count, data) ==
    LET off_in_file == position + done
        lb == off_in_file \div FS_BLOCK_SIZE
        off_in_block == off_in_file % FS_BLOCK_SIZE
        chunk == IF FS_BLOCK_SIZE - off_in_block > count - done
                 THEN count - done ELSE FS_BLOCK_SIZE - off_in_block
        Got(rd) ==
            IF rd.r # FS_OK THEN [r |-> rd.r, m |-> rd.m, data |-> data]
            ELSE read_from(rd.m, ino, position, done + chunk, count,
                     RCat(data, RSlice(BlockBytes(rd.blk), off_in_block, chunk)))
        Mapped(bm) ==
            IF bm.r # FS_OK THEN [r |-> bm.r, m |-> bm.m, data |-> data]
            ELSE IF bm.phys = FS_INVALID_BLOCK
            THEN read_from(bm.m, ino, position, done + chunk, count,
                           RCat(data, RFill(chunk, 0)))
            ELSE Got(fs_read_block_i(bm.m, bm.phys))
    IN  IF done >= count THEN [r |-> FS_OK, m |-> m, data |-> data]
        ELSE Mapped(fs_bmap(m, ino, lb, FALSE))

\* fs_read: [r, m, fd, data]; r is the byte count or the error
fs_read(m, fd, count) ==
    LET Copied(rd, n) ==
            IF rd.r # FS_OK THEN [r |-> rd.r, m |-> rd.m, fd |-> fd, data |-> <<>>]
            ELSE [r |-> n, m |-> rd.m, data |-> rd.data,
                  fd |-> [fd EXCEPT !.position = @ + n]]
        Clamped(ld, n) == Copied(read_from(ld.m, ld.ino, fd.position, 0, n, <<>>), n)
        Loaded(ld) ==
            IF ld.r # FS_OK THEN [r |-> ld.r, m |-> ld.m, fd |-> fd, data |-> <<>>]
            ELSE IF fd.position >= ld.ino.size
            THEN [r |-> 0, m |-> ld.m, fd |-> fd, data |-> <<>>]
            ELSE Clamped(ld, IF count > ld.ino.size - fd.position
                             THEN ld.ino.size - fd.position ELSE count)
    IN  Loaded(fs_load_inode(m, fd.inode_num))

\* the copy loop of fs_write: [r, m, ino]
RECURSIVE write_from(_, _, _, _, _)
write_from(m, ino, position, done, buf) ==
    LET off_in_file == position + done
        lb == off_in_file \div FS_BLOCK_SIZE
        off_in_block == off_in_file % FS_BLOCK_SIZE
        chunk == IF FS_BLOCK_SIZE - off_in_block > RLen(buf) - done
                 THEN RLen(buf) - done ELSE FS_BLOCK_SIZE - off_in_block
        Written(w, ino1) ==
            IF w.r # FS_OK THEN [r |-> w.r, m |-> w.m, ino |-> ino1]
            ELSE write_from(w.m, ino1, position, done + chunk, buf)
        Got(rd, bm) ==
            IF rd.r # FS_OK THEN [r |-> rd.r, m |-> rd.m, ino |-> bm.ino]
            ELSE Written(fs_write_block_i(rd.m, bm.phys,
                             [kind |-> "data",
                              bytes |-> RPatch(BlockBytes(rd.blk), off_in_block,
                                               RSlice(buf, done, chunk))]),
                         bm.ino)
        \* block_buf is uninitialised when the whole block is written, which
        \* then overwrites all of it
        Mapped(bm) ==
            IF bm.r # FS_OK THEN [r |-> bm.r, m |-> bm.m, ino |-> bm.ino]
            ELSE IF bm.phys = FS_INVALID_BLOCK
            THEN [r |-> FS_ERR_CORRUPTED, m |-> bm.m, ino |-> bm.ino]
            ELSE Got(IF chunk # FS_BLOCK_SIZE THEN fs_read_block_i(bm.m, bm.phys)
                     ELSE [r |-> FS_OK, blk |-> ZeroBlock, m |-> bm.m],
                     bm)
    IN  IF done >= RLen(buf) THEN [r |-> FS_OK, m |-> m, ino |-> ino]
        ELSE Mapped(fs_bmap(m, ino, lb, TRUE))

\* fs_write without the update of the inode's size
fs_write_keeps_size(m, fd, buf) ==
    LET position == fd.position + RLen(buf)
        Stored(st) ==
            IF st.r # FS_OK
            THEN [r |-> st.r, m |-> st.m, fd |-> [fd EXCEPT !.position = position]]
            ELSE [r |-> RLen(buf), m |-> st.m,
                  fd |-> [fd EXCEPT !.position = position]]
        Copied(wr) ==
            IF wr.r # FS_OK THEN [r |-> wr.r, m |-> wr.m, fd |-> fd]
            ELSE Stored(fs_store_inode(wr.m, wr.ino))
        Loaded(ld) ==
            IF ld.r # FS_OK THEN [r |-> ld.r, m |-> ld.m, fd |-> fd]
            ELSE Copied(write_from(ld.m, ld.ino, fd.position, 0, buf))
    IN  Loaded(fs_load_inode(m, fd.inode_num))

\* fs_write: [r, m, fd]; r is the byte count or the error
fs_write(m, fd, buf) ==
    LET position == fd.position + RLen(buf)
        Stored(st) ==
            IF st.r # FS_OK
            THEN [r |-> st.r, m |-> st.m, fd |-> [fd EXCEPT !.position = position]]
            ELSE [r |-> RLen(buf), m |-> st.m,
                  fd |-> [fd EXCEPT !.position = position]]
        Copied(wr) ==
            IF wr.r # FS_OK THEN [r |-> wr.r, m |-> wr.m, fd |-> fd]
            ELSE Stored(fs_store_inode(wr.m,
                            IF position > wr.ino.size
                            THEN [wr.ino EXCEPT !.size = position] ELSE wr.ino))
        Loaded(ld) ==
            IF ld.r # FS_OK THEN [r |-> ld.r, m |-> ld.m, fd |-> fd]
            ELSE Copied(write_from(ld.m, ld.ino, fd.position, 0, buf))
    IN  Loaded(fs_load_inode(m, fd.inode_num))

\* fs_opendir: [r, m, fd]
fs_opendir(m, path, fd) ==
    LET Loaded(ld, ino) ==
            IF ld.r # FS_OK THEN [r |-> ld.r, m |-> ld.m, fd |-> fd]
            ELSE IF ld.ino.mode % (2 * FS_MODE_DIR) < FS_MODE_DIR
            THEN [r |-> FS_ERR_NOT_DIRECTORY, m |-> ld.m, fd |-> fd]
            ELSE [r |-> FS_OK, m |-> ld.m,
                  fd |-> [inode_num |-> ino, position |-> 0, flags |-> FS_O_RDONLY]]
        Resolved(res) ==
            IF res.r # FS_OK THEN [r |-> res.r, m |-> res.m, fd |-> fd]
            ELSE Loaded(fs_load_inode(res.m, res.ino), res.ino)
    IN  Resolved(fs_resolve_path(m, path))

\* the directory entry that starts at byte off of a block, or a zeroed one
RECURSIVE EntryAt(_, _, _)
EntryAt(entries, i, off) ==
    IF i > Len(entries) \/ off < 0
    THEN [entry_size |-> 0, inode_num |-> 0, name_len |-> 0, type |-> 0,
          hash |-> U32(0), name |-> <<>>]
    ELSE IF off = 0 THEN entries[i]
    ELSE EntryAt(entries, i + 1, off - entries[i].entry_size)

\* the entry walk of fs_readdir: [r, fd, entry]
RECURSIVE readdir_walk(_, _, _)
readdir_walk(entries, fd, off_in_block) ==
    LET At(de) ==
            IF off_in_block + DIRENT_SIZE > FS_BLOCK_SIZE \/ de.entry_size = 0
            THEN [r |-> FS_ERR_NOT_FOUND, fd |-> fd, entry |-> de]
            ELSE IF de.name_len # 0
            THEN [r |-> FS_OK, entry |-> de,
                  fd |-> [fd EXCEPT !.position = @ + de.entry_size]]
            ELSE readdir_walk(entries, [fd EXCEPT !.position = @ + de.entry_size],
                              off_in_block + de.entry_size)
    IN  At(EntryAt(entries, 1, off_in_block))

\* fs_readdir: [r, m, fd, entry]
fs_readdir(m, fd) ==
    LET none == EntryAt(<<>>, 1, 0)
        Walked(w, m1) == [r |-> w.r, m |-> m1, fd |-> w.fd, entry |-> w.entry]
        Got(rd) ==
            IF rd.r # FS_OK THEN [r |-> rd.r, m |-> rd.m, fd |-> fd, entry |-> none]
            ELSE Walked(readdir_walk(BlockDirents(rd.blk), fd,
                                     fd.position % FS_BLOCK_SIZE),
                        rd.m)
        Mapped(bm) ==
            IF bm.r # FS_OK THEN [r |-> bm.r, m |-> bm.m, fd |-> fd, entry |-> none]
            ELSE IF bm.phys = FS_INVALID_BLOCK
            THEN [r |-> FS_ERR_CORRUPTED, m |-> bm.m, fd |-> fd, entry |-> none]
            ELSE Got(fs_read_block_i(bm.m, bm.phys))
        Loaded(ld) ==
            IF ld.r # FS_OK THEN [r |-> ld.r, m |-> ld.m, fd |-> fd, entry |-> none]
            ELSE IF ld.ino.mode % (2 * FS_MODE_DIR) < FS_MODE_DIR
            THEN [r |-> FS_ERR_NOT_DIRECTORY, m |-> ld.m, fd |-> fd, entry |-> none]
            ELSE IF fd.position >= ld.ino.size
            THEN [r |-> FS_ERR_NOT_FOUND, m |-> ld.m, fd |-> fd, entry |-> none]
            ELSE Mapped(fs_bmap(ld.m, ld.ino, fd.position \div FS_BLOCK_SIZE, FALSE))
    IN  Loaded(fs_load_inode(m, fd.inode_num))

(* ---- the filesystem as a state machine ---- *)

\* the callers' handles
Slots == {0, 1}
\* a struct fs_file no fs_open has filled yet
NoFd == [inode_num |-> FS_INVALID_INODE, position |-> 0, flags |-> 0]

PathRoot == <<"/">>
PathA  == <<"/", "a">>
PathB  == <<"/", "b">>
PathD  == <<"/", "d">>
PathDF == <<"/", "d", "/", "f">>

\* the byte strings the callers write
PayloadSmall == <<[n |-> 1, v |-> 1], [n |-> 2, v |-> 2]>>
PayloadOther == RFill(3, 3)
PayloadTwoBlocks == <<[n |-> FS_BLOCK_SIZE, v |-> 4], [n |-> 88, v |-> 5]>>
PayloadMax == RFill(FS_DIRECT_BLOCKS * FS_BLOCK_SIZE, 6)

\* the machine state a call starts from
\* fs_seek: [r, m, fd]; offset is an int32_t, the new position is computed
\* in int64_t and stored as uint32_t
fs_seek(m, fd, offset, whence) ==
    LET Moved(np) ==
            IF np < 0 THEN [r |-> FS_ERR_INVALID_ARG, fd |-> fd]
            ELSE [r |-> FS_OK, fd |-> [fd EXCEPT !.position = np]]
        Loaded(ld) ==
            IF ld.r # FS_OK THEN [r |-> ld.r, m |-> ld.m, fd |-> fd]
            ELSE IF whence \notin {FS_SEEK_SET, FS_SEEK_CUR, FS_SEEK_END}
            THEN [r |-> FS_ERR_INVALID_ARG, m |-> ld.m, fd |-> fd]
            ELSE [m |-> ld.m] @@
                 Moved((IF whence = FS_SEEK_SET THEN 0
                        ELSE IF whence = FS_SEEK_CUR THEN fd.position
                        ELSE ld.ino.size) + offset)
    IN  Loaded(fs_load_inode(m, fd.inode_num))

Machine == [dev |-> dev, fs |-> fs, faulty |-> faulty, io |-> 0, budget |-> -1,
            stored |-> shadow.ino]

\* the record of the last call
Last(op, ret, io) ==
    [op |-> op, ret |-> ret, io |-> io, path |-> <<>>, creat |-> FALSE,
     created |-> FALSE, lookup_r |-> FS_OK, more |-> FALSE,
     pos |-> 0, count |-> 0, data |-> <<>>, committed |-> FALSE,
     ra |-> FS_OK, rb |-> FS_OK]

\* a call allocated an inode: a NAT entry that was invalid is valid after it
InodeAllocated(before, after) ==
    \E i \in DOMAIN after :
        /\ NatGet(before, i).block_addr = FS_INVALID_BLOCK
        /\ after[i].block_addr # FS_INVALID_BLOCK

\* a call added a directory entry: some block holds more entries after it
DirentAdded(before, after) ==
    \E b \in DOMAIN after :
        Len(BlockDirents(after[b])) > Len(BlockDirents(before[b]))

\* what open(path, RDONLY); read(whole file) returns on machine state m
ReadBack(m, path) ==
    LET Read_(rd) == [r |-> rd.r, data |-> rd.data]
        Opened(o) ==
            IF o.r # FS_OK THEN [r |-> o.r, data |-> <<>>]
            ELSE Read_(fs_read(o.m, o.fd, FS_DIRECT_BLOCKS * FS_BLOCK_SIZE))
    IN  Opened(fs_open([m EXCEPT !.io = 0, !.budget = -1], path, FS_O_RDONLY, NoFd))

\* the files the snapshots follow
SnapPaths == {PathA, PathB}

\* what the checkpoint a completed sync wrote holds
Snapshot(m, overflow) ==
    [nat |-> m.fs.nat, sit |-> m.fs.sit, free |-> m.fs.free_blocks_count,
     files |-> [p \in SnapPaths |-> ReadBack(m, p)], overflow |-> overflow]

ShadowInit ==
    [of |-> [s \in Slots |-> <<>>], b |-> <<>>, ino |-> <<>>, added |-> <<>>]

\* the device after the shell's "fs init <TotalBlocks>" and "fs mount"
Formatted ==
    LET Synced(y) == fs_mount([y.m EXCEPT !.fs = FsZero]).m
        Made(f) == Synced(fs_sync(f.m))
    IN  Made(fs_format([dev |-> [b \in 0..(TotalBlocks - 1) |-> ZeroBlock],
                        fs |-> FsZero, faulty |-> {}, io |-> 0, budget |-> -1,
                        stored |-> <<>>],
                       TotalBlocks))

FsInit ==
    /\ dev = Formatted.dev
    /\ fs = Formatted.fs
    /\ g_fs_mounted = TRUE
    /\ fds = [s \in Slots |-> NoFd]
    /\ faulty = {}
    /\ fs_last = Last("mount", FS_OK, 0)
    /\ shadow = ShadowInit
    /\ snap = Snapshot(Formatted, FALSE)
    /\ fs_ops = 0

\* a call that ran out of blocks overflowed the device
Overflowed(r) == [snap EXCEPT !.overflow = @ \/ r = FS_ERR_NO_SPACE]

(* The calls.  Each runs the whole handler on the machine state and keeps
   what it left, on success and on failure alike. *)

\* fs_open(&g_fs, path, flags, &fd)
Open(slot, path, flags) ==
    LET Returned(x) ==
            /\ g_fs_mounted
            /\ dev' = x.m.dev
            /\ fs' = x.m.fs
            /\ fds' = [fds EXCEPT ![slot] = x.fd]
            /\ fs_last' = [Last("open", x.r, x.m.io) EXCEPT
                             !.path = path,
                             !.creat = ((flags \div FS_O_CREAT) % 2 = 1),
                             !.created = \/ InodeAllocated(fs.nat, x.m.fs.nat)
                                         \/ DirentAdded(dev, x.m.dev),
                             !.lookup_r = x.res.lookup_r,
                             !.more = x.res.more]
            /\ shadow' = IF x.r = FS_OK
                         THEN [shadow EXCEPT
                                 !.of[slot] = path, !.ino = x.m.stored,
                                 !.added = IF x.res.r = FS_OK THEN @
                                           ELSE (path :> x.fd.inode_num) @@ @]
                         ELSE [shadow EXCEPT !.ino = x.m.stored]
            /\ snap' = Overflowed(x.r)
            /\ fs_ops' = fs_ops + 1
            /\ UNCHANGED <<g_fs_mounted, faulty, nonFsVars>>
    IN  Returned(fs_open(Machine, path, flags, fds[slot]))

\* fs_write(&g_fs, &fd, buf, RLen(buf)) on a handle fs_open has filled
Write(slot, buf) ==
    LET path == shadow.of[slot]
        Returned(x) ==
            /\ g_fs_mounted
            /\ fds[slot].inode_num # FS_INVALID_INODE
            /\ dev' = x.m.dev
            /\ fs' = x.m.fs
            /\ fds' = [fds EXCEPT ![slot] = x.fd]
            /\ fs_last' = [Last("write", x.r, x.m.io) EXCEPT
                             !.path = path, !.pos = fds[slot].position,
                             !.count = RLen(buf)]
            /\ shadow' =
                 IF path \in DOMAIN shadow.b
                 THEN [shadow EXCEPT !.b[path].only = FALSE, !.ino = x.m.stored]
                 ELSE IF x.r = RLen(buf)
                 THEN [shadow EXCEPT !.b =
                         (path :> [b |-> buf, only |-> fds[slot].position = 0,
                                   seq |-> fs_ops]) @@ @,
                                     !.ino = x.m.stored]
                 ELSE [shadow EXCEPT !.ino = x.m.stored]
            /\ snap' = Overflowed(x.r)
            /\ fs_ops' = fs_ops + 1
            /\ UNCHANGED <<g_fs_mounted, faulty, nonFsVars>>
    IN  Returned(fs_write(Machine, fds[slot], buf))

\* fs_read(&g_fs, &fd, buf, count)
Read(slot, count) ==
    LET Returned(x) ==
            /\ g_fs_mounted
            /\ fds[slot].inode_num # FS_INVALID_INODE
            /\ dev' = x.m.dev
            /\ fs' = x.m.fs
            /\ fds' = [fds EXCEPT ![slot] = x.fd]
            /\ fs_last' = [Last("read", x.r, x.m.io) EXCEPT
                             !.path = shadow.of[slot], !.pos = fds[slot].position,
                             !.count = count, !.data = x.data]
            /\ fs_ops' = fs_ops + 1
            /\ UNCHANGED <<g_fs_mounted, faulty, shadow, snap, nonFsVars>>
    IN  Returned(fs_read(Machine, fds[slot], count))

\* fs_close(&g_fs, &fd): returns FS_OK and touches nothing
\* fs_seek(&g_fs, &fd, offset, whence)
Seek(slot, offset, whence) ==
    LET Returned(x) ==
            /\ g_fs_mounted
            /\ fds[slot].inode_num # FS_INVALID_INODE
            /\ dev' = x.m.dev
            /\ fs' = x.m.fs
            /\ fds' = [fds EXCEPT ![slot] = x.fd]
            /\ fs_last' = [Last("seek", x.r, x.m.io) EXCEPT
                             !.path = shadow.of[slot], !.pos = fds[slot].position]
            /\ fs_ops' = fs_ops + 1
            /\ UNCHANGED <<g_fs_mounted, faulty, shadow, snap, nonFsVars>>
    IN  Returned(fs_seek(Machine, fds[slot], offset, whence))

Close(slot) ==
    /\ g_fs_mounted
    /\ fds[slot].inode_num # FS_INVALID_INODE
    /\ fs_last' = [Last("close", FS_OK, 0) EXCEPT !.path = shadow.of[slot]]
    /\ fs_ops' = fs_ops + 1
    /\ UNCHANGED <<dev, fs, g_fs_mounted, fds, faulty, shadow, snap, nonFsVars>>

\* fs_mkdir(&g_fs, path)
Mkdir(path) ==
    LET Returned(x) ==
            /\ g_fs_mounted
            /\ dev' = x.m.dev
            /\ fs' = x.m.fs
            /\ fs_last' = [Last("mkdir", x.r, x.m.io) EXCEPT !.path = path]
            /\ shadow' = [shadow EXCEPT
                            !.ino = x.m.stored,
                            !.added = IF x.r # FS_OK THEN @
                                      ELSE (path :> find_free_inode(fs)) @@ @]
            /\ snap' = Overflowed(x.r)
            /\ fs_ops' = fs_ops + 1
            /\ UNCHANGED <<g_fs_mounted, fds, faulty, nonFsVars>>
    IN  Returned(fs_mkdir(Machine, path))

\* fs_opendir(&g_fs, path, &dir)
Opendir(slot, path) ==
    LET Returned(x) ==
            /\ g_fs_mounted
            /\ dev' = x.m.dev
            /\ fs' = x.m.fs
            /\ fds' = [fds EXCEPT ![slot] = x.fd]
            /\ fs_last' = [Last("opendir", x.r, x.m.io) EXCEPT !.path = path]
            /\ shadow' = IF x.r = FS_OK THEN [shadow EXCEPT !.of[slot] = path]
                         ELSE shadow
            /\ fs_ops' = fs_ops + 1
            /\ UNCHANGED <<g_fs_mounted, faulty, snap, nonFsVars>>
    IN  Returned(fs_opendir(Machine, path, fds[slot]))

\* fs_readdir(&g_fs, &dir, &de)
Readdir(slot) ==
    LET Returned(x) ==
            /\ g_fs_mounted
            /\ fds[slot].inode_num # FS_INVALID_INODE
            /\ dev' = x.m.dev
            /\ fs' = x.m.fs
            /\ fds' = [fds EXCEPT ![slot] = x.fd]
            /\ fs_last' = [Last("readdir", x.r, x.m.io) EXCEPT
                             !.path = shadow.of[slot], !.pos = fds[slot].position,
                             !.data = x.entry.name]
            /\ fs_ops' = fs_ops + 1
            /\ UNCHANGED <<g_fs_mounted, faulty, shadow, snap, nonFsVars>>
    IN  Returned(fs_readdir(Machine, fds[slot]))

\* fs_sync(&g_fs)
Sync ==
    LET Returned(x) ==
            /\ g_fs_mounted
            /\ dev' = x.m.dev
            /\ fs' = x.m.fs
            /\ fs_last' = [Last("sync", x.r, x.m.io) EXCEPT
                             !.committed = (x.r = FS_OK)]
            /\ snap' = IF x.r = FS_OK THEN Snapshot(x.m, snap.overflow) ELSE snap
            /\ fs_ops' = fs_ops + 1
            /\ UNCHANGED <<g_fs_mounted, fds, faulty, shadow, nonFsVars>>
    IN  Returned(fs_sync(Machine))

\* whether checkpoint slot which of a device validates: the backend reads
\* the block and the block holds a checkpoint image, whose crc matches
SlotValidates(device, which) ==
    LET blk == IF which = 0 THEN FS_CP0_BLOCK ELSE FS_CP1_BLOCK
    IN  blk \notin faulty /\ device[blk].kind = "cp"

\* what a reboot leaves and cmd_fs_mount makes of it: the device stays (it
\* lives in .noinit), g_fs is cleared and fs_mount runs; the callers'
\* handles are gone
Remounted(op, device, committed) ==
    LET Returned(x) ==
            /\ dev' = x.m.dev
            /\ fs' = x.m.fs
            /\ g_fs_mounted' = (x.r = FS_OK)
            /\ fds' = [s \in Slots |-> NoFd]
            /\ shadow' = ShadowInit
            /\ fs_last' = [Last(op, x.r, x.m.io) EXCEPT
                             !.committed = committed,
                             !.ra = IF SlotValidates(device, 0) THEN FS_OK
                                    ELSE FS_ERR_CORRUPTED,
                             !.rb = IF SlotValidates(device, 1) THEN FS_OK
                                    ELSE FS_ERR_CORRUPTED]
            /\ fs_ops' = fs_ops + 1
            /\ UNCHANGED <<faulty, nonFsVars>>
    IN  Returned(fs_mount([dev |-> device, fs |-> FsZero, faulty |-> faulty,
                           io |-> 0, budget |-> -1, stored |-> <<>>]))

\* power is lost between two calls; the shell mounts after the reboot
PowerLossMount ==
    /\ Remounted("remount", dev, FALSE)
    /\ snap' = snap

\* the backend writes fs_sync issues before it returns FS_OK: the NAT
\* blocks, the SIT blocks, the checkpoint, the superblock
SYNC_WRITES == Formatted.fs.sb.nat_blocks + Formatted.fs.sb.sit_blocks + 2

\* power is lost during fs_sync, after k of its backend writes reached the
\* device; the shell mounts after the reboot.  committed: the checkpoint
\* write was among the k.
SyncCrash(k) ==
    LET Rebooted(x, committed) ==
            /\ g_fs_mounted
            /\ x.r = POWER_LOST
            /\ Remounted("sync_crash", x.m.dev, committed)
            /\ snap' = IF committed THEN Snapshot(x.m, snap.overflow) ELSE snap
        Stopped(x) ==
            Rebooted(x, \/ x.m.dev[FS_CP0_BLOCK] # dev[FS_CP0_BLOCK]
                        \/ x.m.dev[FS_CP1_BLOCK] # dev[FS_CP1_BLOCK])
    IN  Stopped(fs_sync([Machine EXCEPT !.budget = k]))

\* the backend starts to fail on block b
InjectFault(b) ==
    /\ b \notin faulty
    /\ faulty' = faulty \cup {b}
    /\ fs_ops' = fs_ops + 1
    /\ UNCHANGED <<dev, fs, g_fs_mounted, fds, fs_last, shadow, snap, nonFsVars>>

\* the backend works again
ClearFaults ==
    /\ faulty # {}
    /\ faulty' = {}
    /\ fs_ops' = fs_ops + 1
    /\ UNCHANGED <<dev, fs, g_fs_mounted, fds, fs_last, shadow, snap, nonFsVars>>

\* the medium loses the content of block b: what is read from it afterwards
\* is no image the file system wrote
CorruptBlock(b) ==
    /\ dev[b] # ZeroBlock
    /\ dev' = [dev EXCEPT ![b] = ZeroBlock]
    /\ fs_ops' = fs_ops + 1
    /\ UNCHANGED <<fs, g_fs_mounted, fds, faulty, fs_last, shadow, snap, nonFsVars>>

(***************************************************************************)
(* Permissions (src/sys/permissions.c, include/permissions.h): one task's  *)
(* security context and one resource, and the calls a task makes on them.  *)
(* uid_t, gid_t and perm_bits_t are uint16_t; every value used here is far *)
(* below 2^16.  A capability mask is the set of its bit positions.         *)
(***************************************************************************)
UID_ROOT     == 0
UID_USER_MIN == 1000
GID_ROOT     == 0
GID_SYSTEM   == 1
GID_DRIVERS  == 2
GID_USERS    == 100

PERM_READ  == 4
PERM_WRITE == 2
PERM_EXEC  == 1

PERM_OWNER_SHIFT == 6
PERM_GROUP_SHIFT == 3
PERM_OTHER_SHIFT == 0

RESOURCE_DEVICE == 1

CAP_ALL == 0 .. 31

MaxPermOps == 2

RECURSIVE BitAnd(_, _)
BitAnd(a, b) ==
    IF a = 0 \/ b = 0 THEN 0
    ELSE (a % 2) * (b % 2) + 2 * BitAnd(a \div 2, b \div 2)

RECURSIVE BitOr(_, _)
BitOr(a, b) ==
    IF a = 0 THEN b
    ELSE IF b = 0 THEN a
    ELSE (IF a % 2 = 1 \/ b % 2 = 1 THEN 1 ELSE 0) + 2 * BitOr(a \div 2, b \div 2)

Shl(x, n) == x * 2 ^ n
Shr(x, n) == x \div 2 ^ n

PERM_MAKE(owner, group, other) ==
    BitOr(BitOr(Shl(owner, PERM_OWNER_SHIFT), Shl(group, PERM_GROUP_SHIFT)), other)

PERM_GET_OWNER(bits) == BitAnd(Shr(bits, PERM_OWNER_SHIFT), 7)
PERM_GET_GROUP(bits) == BitAnd(Shr(bits, PERM_GROUP_SHIFT), 7)
PERM_GET_OTHER(bits) == BitAnd(Shr(bits, PERM_OTHER_SHIFT), 7)

PERM_0644 == PERM_MAKE(BitOr(PERM_READ, PERM_WRITE), PERM_READ, PERM_READ)
PERM_0640 == PERM_MAKE(BitOr(PERM_READ, PERM_WRITE), PERM_READ, 0)
PERM_0600 == PERM_MAKE(BitOr(PERM_READ, PERM_WRITE), 0, 0)
PERM_0770 == PERM_MAKE(7, 7, 0)

\* the uids, gids, modes and requests the calls are made with
Uids      == {UID_ROOT, UID_USER_MIN, UID_USER_MIN + 1}
Gids      == {GID_ROOT, GID_DRIVERS, GID_USERS}
PermModes == {PERM_0600, PERM_0644, PERM_0640, PERM_0770,
              PERM_MAKE(0, PERM_READ, 7), PERM_MAKE(0, 0, PERM_READ)}
Requests  == 1 .. 7

perm_init_context(uid, is_system) ==
    [uid  |-> uid,
     euid |-> uid,
     gid  |-> IF is_system THEN GID_SYSTEM ELSE GID_USERS,
     egid |-> IF is_system THEN GID_SYSTEM ELSE GID_USERS,
     umask |-> 18,
     capabilities |-> IF uid = UID_ROOT THEN CAP_ALL ELSE {}]

\* the security context task_create gives a task of the given uid
task_sec_ctx(uid) ==
    [uid  |-> uid,
     euid |-> uid,
     gid  |-> IF uid = UID_ROOT THEN GID_ROOT ELSE GID_USERS,
     egid |-> IF uid = UID_ROOT THEN GID_ROOT ELSE GID_USERS,
     umask |-> 18,
     capabilities |-> IF uid = UID_ROOT THEN CAP_ALL ELSE {}]

perm_resource_create(owner_uid, owner_gid, perms, type) ==
    [perms |-> perms, owner_uid |-> owner_uid, owner_gid |-> owner_gid,
     type |-> type, flags |-> 0]

\* perm_check deciding from every group's bits instead of the first applicable one
perm_check_any_group(task_ctx, resource_perm, required_perm) ==
    \/ task_ctx.euid = UID_ROOT
    \/ BitAnd(PERM_GET_OWNER(resource_perm.perms), required_perm) # 0
    \/ BitAnd(PERM_GET_GROUP(resource_perm.perms), required_perm) # 0
    \/ BitAnd(PERM_GET_OTHER(resource_perm.perms), required_perm) # 0

perm_check(task_ctx, resource_perm, required_perm) ==
    IF task_ctx.euid = UID_ROOT THEN TRUE
    ELSE IF task_ctx.euid = resource_perm.owner_uid
         THEN BitAnd(PERM_GET_OWNER(resource_perm.perms), required_perm) # 0
    ELSE IF task_ctx.egid = resource_perm.owner_gid
         THEN BitAnd(PERM_GET_GROUP(resource_perm.perms), required_perm) # 0
    ELSE BitAnd(PERM_GET_OTHER(resource_perm.perms), required_perm) # 0

\* perm_seteuid granting every request, as if every caller were root
perm_seteuid_unchecked(task_ctx, new_euid) ==
    [ret |-> TRUE, ctx |-> [task_ctx EXCEPT !.euid = new_euid]]

perm_seteuid(task_ctx, new_euid) ==
    IF new_euid = task_ctx.uid
    THEN [ret |-> TRUE, ctx |-> [task_ctx EXCEPT !.euid = new_euid]]
    ELSE IF task_ctx.euid = UID_ROOT
    THEN [ret |-> TRUE, ctx |-> [task_ctx EXCEPT !.euid = new_euid]]
    ELSE [ret |-> FALSE, ctx |-> task_ctx]

perm_setegid(task_ctx, new_egid) ==
    IF new_egid = task_ctx.gid
    THEN [ret |-> TRUE, ctx |-> [task_ctx EXCEPT !.egid = new_egid]]
    ELSE IF task_ctx.egid = GID_ROOT
    THEN [ret |-> TRUE, ctx |-> [task_ctx EXCEPT !.egid = new_egid]]
    ELSE [ret |-> FALSE, ctx |-> task_ctx]

perm_chown(task_ctx, res, new_uid, new_gid) ==
    IF task_ctx.euid # UID_ROOT
    THEN [ret |-> FALSE, res |-> res]
    ELSE [ret |-> TRUE, res |-> [res EXCEPT !.owner_uid = new_uid, !.owner_gid = new_gid]]

perm_chmod(task_ctx, res, new_perms) ==
    IF task_ctx.uid = res.owner_uid
    THEN [ret |-> TRUE, res |-> [res EXCEPT !.perms = new_perms]]
    ELSE IF task_ctx.euid = UID_ROOT
    THEN [ret |-> TRUE, res |-> [res EXCEPT !.perms = new_perms]]
    ELSE [ret |-> FALSE, res |-> res]

\* the last permission call: its arguments, its result, and the context and
\* the resource it was made on
PermLast(op, ret, a, b) ==
    [op |-> op, ret |-> ret, a |-> a, b |-> b, ctx |-> sec_ctx, res |-> resource]

PermInit ==
    /\ sec_ctx \in {perm_init_context(u, s) : u \in Uids, s \in BOOLEAN}
                     \cup {task_sec_ctx(u) : u \in Uids}
    /\ resource \in {perm_resource_create(u, g, p, RESOURCE_DEVICE) :
                        u \in Uids, g \in Gids, p \in PermModes}
    /\ perm_last = PermLast("init", TRUE, 0, 0)
    /\ perm_ops = 0

PermSeteuid ==
    /\ perm_ops < MaxPermOps
    /\ \E new_euid \in Uids :
         /\ sec_ctx' = perm_seteuid(sec_ctx, new_euid).ctx
         /\ perm_last' = PermLast("seteuid", perm_seteuid(sec_ctx, new_euid).ret, new_euid, 0)
    /\ perm_ops' = perm_ops + 1
    /\ UNCHANGED <<resource, nonPermVars>>

PermSetegid ==
    /\ perm_ops < MaxPermOps
    /\ \E new_egid \in Gids :
         /\ sec_ctx' = perm_setegid(sec_ctx, new_egid).ctx
         /\ perm_last' = PermLast("setegid", perm_setegid(sec_ctx, new_egid).ret, new_egid, 0)
    /\ perm_ops' = perm_ops + 1
    /\ UNCHANGED <<resource, nonPermVars>>

PermCheck ==
    /\ perm_ops < MaxPermOps
    /\ \E required_perm \in Requests :
         perm_last' = PermLast("check", perm_check(sec_ctx, resource, required_perm),
                               required_perm, 0)
    /\ perm_ops' = perm_ops + 1
    /\ UNCHANGED <<sec_ctx, resource, nonPermVars>>

PermChmod ==
    /\ perm_ops < MaxPermOps
    /\ \E new_perms \in PermModes :
         /\ resource' = perm_chmod(sec_ctx, resource, new_perms).res
         /\ perm_last' = PermLast("chmod", perm_chmod(sec_ctx, resource, new_perms).ret,
                                  new_perms, 0)
    /\ perm_ops' = perm_ops + 1
    /\ UNCHANGED <<sec_ctx, nonPermVars>>

PermChown ==
    /\ perm_ops < MaxPermOps
    /\ \E new_uid \in Uids, new_gid \in Gids :
         /\ resource' = perm_chown(sec_ctx, resource, new_uid, new_gid).res
         /\ perm_last' = PermLast("chown", perm_chown(sec_ctx, resource, new_uid, new_gid).ret,
                                  new_uid, new_gid)
    /\ perm_ops' = perm_ops + 1
    /\ UNCHANGED <<sec_ctx, nonPermVars>>

\* the subsystems a specification does not exercise rest in one initial state
SchedIdle == SchedInit /\ enum_signed = FALSE
SupIdle   == SupInit /\ now = <<65535, 60000>>
PermIdle  ==
    /\ sec_ctx = perm_init_context(UID_USER_MIN, FALSE)
    /\ resource = perm_resource_create(UID_ROOT, GID_DRIVERS, PERM_0640, RESOURCE_DEVICE)
    /\ perm_last = PermLast("init", TRUE, 0, 0)
    /\ perm_ops = 0

InitMem   == MemInit /\ SchedIdle /\ SupIdle /\ FsInit /\ PermIdle /\ SageInit /\ CfgInit /\ HcInit
InitSched == MemInit /\ SchedInit /\ SupIdle /\ FsInit /\ PermIdle /\ SageInit /\ CfgInit /\ HcInit
InitSup   == MemInit /\ SchedIdle /\ SupInit /\ FsInit /\ PermIdle /\ SageInit /\ CfgInit /\ HcInit
InitFs    == MemInit /\ SchedIdle /\ SupIdle /\ FsInit /\ PermIdle /\ SageInit /\ CfgInit /\ HcInit
InitPerm  == MemInit /\ SchedIdle /\ SupIdle /\ FsInit /\ PermInit /\ SageInit /\ CfgInit /\ HcInit


\* bound: number of allocations and stack moves in one behaviour of SpecCollision
MaxCollisionOps == 2

\* values the stack pointer takes as calls nest and return: the empty stack,
\* the full stack, and a stack that has overflowed 32 KiB into the region below
StackPointers == {STACK_TOP, STACK_BASE, Sub32(STACK_BASE, U32(32768))}

\* the running code pushes or pops stack frames
StackMove ==
    /\ mem_ops < MaxCollisionOps
    /\ \E p \in StackPointers :
         /\ p # cur_sp
         /\ cur_sp' = p
    /\ mem_ops' = mem_ops + 1
    /\ UNCHANGED <<kernel_heap, interpreter_heap, mem_last, nonMemVars>>

\* memory_check_collision(): 1 when the stack has grown into the interpreter heap
memory_check_collision == IF Le32(cur_sp, interpreter_heap.current) THEN 1 ELSE 0

NextMem ==
    \/ KernelMalloc
    \/ KernelCalloc
    \/ InterpreterMalloc
    \/ InterpreterCalloc
    \/ InterpreterMallocRemaining
    \/ InterpreterHeapReset

SpecMem == InitMem /\ [][NextMem]_vars

NextSched ==
    \/ Create
    \/ Terminate
    \/ Suspend
    \/ Resume
    \/ SchedulerNextTaskCore0
    \/ SchedulerNextTaskCore1

SpecSched == InitSched /\ [][NextSched]_vars

NextSchedIds ==
    \/ CreateOnCore0
    \/ TerminateOldest

SpecSchedIds == InitSched /\ [][NextSchedIds]_vars

NextSup ==
    \/ Tick
    \/ SupervisorLoop
    \/ Core0Heartbeat
    \/ Core0WdtFeed
    \/ Core0WdtEnable
    \/ Core0WdtDisable
    \/ Core0ReportMemory
    \/ Core0Hang

SpecSup == InitSup /\ [][NextSup]_vars

NextSupStop ==
    \/ StopTick
    \/ LoopWake
    \/ LoopTest
    \/ LoopBody
    \/ LoopFeed
    \/ SupervisorStop
    \/ SupervisorStopReset

SpecSupStop == InitSup /\ [][NextSupStop]_vars

(* ---- the supervisor loop and multicore.c's launches, both on core 1 ---- *)
NextCore1 ==
    \/ StopTick
    \/ LoopWake
    \/ LoopTest
    \/ LoopBody
    \/ LoopFeed
    \/ Core1Tick
    \/ MulticoreLaunchCode
    \/ Core1EntryInit
    \/ Core1EntryDone
    \/ MulticoreStop

SpecCore1 == InitSup /\ [][NextCore1]_vars

(* ---- the watchdog facade from power-up: wdt_init, wdt_enable, wdt_feed,
        wdt_disable and the clock ---- *)
MaxWdtOps == 3

\* requested timeouts: 0, the least, the kernel's 8000, the greatest, one
\* more, and 0xFFFFFFFF
WdtTimeouts == {U32(0), U32(1), U32(8000), U32(8388), U32(8389), <<65535, 65535>>}

\* the static initialiser of wdt_state; the hardware countdown is not running
WdtBoot ==
    /\ now \in BootTimes
    /\ hw_wdt = [running |-> FALSE, timeout |-> U32(0), last_update |-> U32(0)]
    /\ wdt_state = [enabled |-> FALSE, timeout_ms |-> U32(0), feed_count |-> 0,
                    last_feed_time_ms |-> U32(0),
                    last_reset_reason |-> WATCHDOG_RESET_NONE]
    /\ SupRestInit

WdtCalled(op, t, ret) ==
    /\ ~reset
    /\ core0.ops < MaxWdtOps
    /\ core0' = [core0 EXCEPT !.ops = @ + 1,
                              !.call = [op |-> op, t |-> t, ret |-> ret,
                                        was_enabled |-> wdt_state.enabled]]

WdtInit ==
    /\ \E t \in WdtTimeouts, caused_reboot \in BOOLEAN :
         /\ wdt_state' = wdt_init(t, caused_reboot).wdt_state
         /\ WdtCalled("wdt_init", t, wdt_init(t, caused_reboot).ret)
    /\ UNCHANGED <<now, hw_wdt, metrics, sup, sup_last, reset, ticks, nonSupVars>>

WdtEnable ==
    /\ \E t \in WdtTimeouts :
         /\ wdt_state' = wdt_enable(t).wdt_state
         /\ hw_wdt' = wdt_enable(t).hw_wdt
         /\ WdtCalled("wdt_enable", t, wdt_enable(t).ret)
    /\ UNCHANGED <<now, metrics, sup, sup_last, reset, ticks, nonSupVars>>

WdtFeed ==
    /\ wdt_state' = wdt_feed.wdt_state
    /\ hw_wdt' = wdt_feed.hw_wdt
    /\ WdtCalled("wdt_feed", U32(0), TRUE)
    /\ UNCHANGED <<now, metrics, sup, sup_last, reset, ticks, nonSupVars>>

WdtDisable ==
    /\ wdt_state' = wdt_disable
    /\ WdtCalled("wdt_disable", U32(0), TRUE)
    /\ UNCHANGED <<now, hw_wdt, metrics, sup, sup_last, reset, ticks, nonSupVars>>

WatchdogDisable ==
    /\ wdt_state' = watchdog_disable.wdt_state
    /\ hw_wdt' = watchdog_disable.hw_wdt
    /\ WdtCalled("watchdog_disable", U32(0), TRUE)
    /\ UNCHANGED <<now, metrics, sup, sup_last, reset, ticks, nonSupVars>>

NextWdt ==
    \/ Tick
    \/ WdtInit
    \/ WdtEnable
    \/ WdtFeed
    \/ WdtDisable
    \/ WatchdogDisable

(* ---- a health check and heartbeats, statement by statement ---- *)
NextRace ==
    \/ HealthSample
    \/ HealthFeedAge
    \/ HealthHeartbeatAge
    \/ HealthRest
    \/ HeartbeatSample
    \/ HeartbeatStore
    \/ HeartbeatFeedStore
    \/ RaceTick

SpecRace == InitSup /\ [][NextRace]_vars

(* ---- the configuration table and its record in flash ---- *)
NextCfg ==
    \/ ConfigSet
    \/ ConfigDelete
    \/ ConfigGet
    \/ ConfigSave
    \/ ConfigLoad

SpecCfg == InitMem /\ [][NextCfg]_vars

(* ---- sage_eval_string under an execution timeout ---- *)
NextEval ==
    \/ SageSetExecutionTimeout
    \/ EvalStart
    \/ EvalCheck
    \/ EvalRuns
    \/ EvalParsed
    \/ EvalInterpreted

SpecEval == InitSup /\ [][NextEval]_vars

InitWdt ==
    /\ MemInit /\ SchedIdle /\ WdtBoot /\ FsInit
    /\ PermIdle /\ SageInit /\ CfgInit /\ HcInit

SpecWdt == InitWdt /\ [][NextWdt]_vars

\* the interpreter allocating and the stack moving under the supervisor
CollisionAlloc == mem_ops < MaxCollisionOps /\ InterpreterMalloc

NextCollision ==
    \/ CollisionAlloc
    \/ StackMove
    \/ Tick
    \/ SupervisorLoop

SpecCollision == InitSup /\ [][NextCollision]_vars

NextPerm ==
    \/ PermSeteuid
    \/ PermSetegid
    \/ PermCheck
    \/ PermChmod
    \/ PermChown

SpecPerm == InitPerm /\ [][NextPerm]_vars

(* ---- a caller that writes a file and reads it back, beside another
        caller that creates and writes its own file ---- *)
MaxRwOps == 6

RwPayloads == {PayloadSmall, PayloadTwoBlocks, PayloadMax}

RwOpen ==
    /\ fs_ops < MaxRwOps
    /\ \E flags \in {FS_O_RDONLY, FS_O_CREAT} : Open(0, PathA, flags)

RwWrite ==
    /\ fs_ops < MaxRwOps
    /\ \E buf \in RwPayloads : Write(0, buf)

RwRead ==
    /\ fs_ops < MaxRwOps
    /\ \E buf \in RwPayloads : Read(0, RLen(buf))

RwClose ==
    /\ fs_ops < MaxRwOps
    /\ Close(0)

OtherOpen ==
    /\ fs_ops < MaxRwOps
    /\ Open(1, PathB, FS_O_CREAT)

OtherWrite ==
    /\ fs_ops < MaxRwOps
    /\ \E buf \in {PayloadOther, PayloadTwoBlocks} : Write(1, buf)

NextFsRw ==
    \/ RwOpen
    \/ RwWrite
    \/ RwRead
    \/ RwClose
    \/ OtherOpen
    \/ OtherWrite

SpecFsRw == InitFs /\ [][NextFsRw]_vars

(* ---- names added to the root directory until its first block is full ---- *)
MaxDirNames == 9

\* names of DirNameLen characters that differ in one character; an entry
\* takes 60 bytes of the block, eight of them leave no room for a ninth
DirNameLen == 45
DirPath(i) == <<"/">> \o [j \in 1..DirNameLen |-> IF j = i THEN "b" ELSE "a"]

DirOpen ==
    /\ fs_ops < MaxDirNames
    /\ Open(0, DirPath(fs_ops + 1), FS_O_CREAT)

DirMkdir ==
    /\ fs_ops < MaxDirNames
    /\ Mkdir(DirPath(fs_ops + 1))

NextFsDir ==
    \/ DirOpen
    \/ DirMkdir

SpecFsDir == InitFs /\ [][NextFsDir]_vars

(* ---- one file, syncs and power losses ---- *)
MaxCrashOps == 6

CrashOpen ==
    /\ fs_ops < MaxCrashOps
    /\ Open(0, PathA, FS_O_CREAT)

CrashWrite ==
    /\ fs_ops < MaxCrashOps
    /\ \E buf \in {PayloadSmall, PayloadOther} : Write(0, buf)

CrashSync ==
    /\ fs_ops < MaxCrashOps
    /\ Sync

CrashDuringSync ==
    /\ fs_ops < MaxCrashOps
    /\ \E k \in 0..(SYNC_WRITES - 1) : SyncCrash(k)

CrashPowerLoss ==
    /\ fs_ops < MaxCrashOps
    /\ PowerLossMount

NextFsCrash ==
    \/ CrashOpen
    \/ CrashWrite
    \/ CrashSync
    \/ CrashDuringSync
    \/ CrashPowerLoss

SpecFsCrash == InitFs /\ [][NextFsCrash]_vars

(* ---- a file written at positions reached by fs_seek ---- *)
MaxSeekOps == 6

\* offsets: back by one, none, into the first block, into the second block
SeekOffsets == {-1, 0, 300, 700}

SeekOpen ==
    /\ fs_ops < MaxSeekOps
    /\ Open(0, PathA, FS_O_CREAT)

SeekSeek ==
    /\ fs_ops < MaxSeekOps
    /\ \E offset \in SeekOffsets,
          whence \in {FS_SEEK_SET, FS_SEEK_CUR, FS_SEEK_END, FS_SEEK_END + 1} :
         Seek(0, offset, whence)

SeekWrite ==
    /\ fs_ops < MaxSeekOps
    /\ \E buf \in {PayloadSmall, PayloadTwoBlocks} : Write(0, buf)

SeekRead ==
    /\ fs_ops < MaxSeekOps
    /\ Read(0, 2 * FS_BLOCK_SIZE)

\* power is lost and the shell mounts what .noinit holds
SeekMount ==
    /\ fs_ops < MaxSeekOps
    /\ PowerLossMount

NextFsSeek ==
    \/ SeekOpen
    \/ SeekSeek
    \/ SeekWrite
    \/ SeekRead
    \/ SeekMount

SpecFsSeek == InitFs /\ [][NextFsSeek]_vars

(* ---- calls, syncs and mounts on a backend whose SIT block can fail ---- *)
MaxSitOps == 5

SitOpen ==
    /\ fs_ops < MaxSitOps
    /\ \E path \in {PathA, PathB} : Open(0, path, FS_O_CREAT)

SitWrite ==
    /\ fs_ops < MaxSitOps
    /\ Write(0, PayloadSmall)

SitSync ==
    /\ fs_ops < MaxSitOps
    /\ Sync

SitMount ==
    /\ fs_ops < MaxSitOps
    /\ PowerLossMount

SitInjectFault ==
    /\ fs_ops < MaxSitOps
    /\ InjectFault(Formatted.fs.sb.sit_start_block)

SitClearFaults ==
    /\ fs_ops < MaxSitOps
    /\ ClearFaults

NextFsSit ==
    \/ SitOpen
    \/ SitWrite
    \/ SitSync
    \/ SitMount
    \/ SitInjectFault
    \/ SitClearFaults

SpecFsSit == InitFs /\ [][NextFsSit]_vars

(* ---- every call, on a backend that can fail ---- *)
MaxFaultOps == 4

\* the blocks the backend can fail on: the two checkpoint slots, the block
\* fs_format puts the root inode in, and the block the first fs_dir_add on
\* the root allocates
FaultBlocks == {FS_CP0_BLOCK, FS_CP1_BLOCK,
                Formatted.fs.sb.main_start_block,
                Formatted.fs.sb.main_start_block + 2}

FsOpen ==
    /\ fs_ops < MaxFaultOps
    /\ \E path \in {PathA, PathDF}, flags \in {FS_O_RDONLY, FS_O_CREAT} :
           Open(0, path, flags)

FsMkdir ==
    /\ fs_ops < MaxFaultOps
    /\ Mkdir(PathD)

FsWrite ==
    /\ fs_ops < MaxFaultOps
    /\ Write(0, PayloadSmall)

FsRead ==
    /\ fs_ops < MaxFaultOps
    /\ Read(0, RLen(PayloadSmall))

FsOpendir ==
    /\ fs_ops < MaxFaultOps
    /\ \E path \in {PathRoot, PathD} : Opendir(1, path)

FsReaddir ==
    /\ fs_ops < MaxFaultOps
    /\ Readdir(1)

FsSync ==
    /\ fs_ops < MaxFaultOps
    /\ Sync

FsMount ==
    /\ fs_ops < MaxFaultOps
    /\ PowerLossMount

FsInjectFault ==
    /\ fs_ops < MaxFaultOps
    /\ \E b \in FaultBlocks : InjectFault(b)

FsClearFaults ==
    /\ fs_ops < MaxFaultOps
    /\ ClearFaults

FsCorruptCheckpoint ==
    /\ fs_ops < MaxFaultOps
    /\ \E b \in {FS_CP0_BLOCK, FS_CP1_BLOCK} : CorruptBlock(b)

NextFsFault ==
    \/ FsOpen
    \/ FsMkdir
    \/ FsWrite
    \/ FsRead
    \/ FsOpendir
    \/ FsReaddir
    \/ FsSync
    \/ FsMount
    \/ FsInjectFault
    \/ FsClearFaults
    \/ FsCorruptCheckpoint

SpecFsFault == InitFs /\ [][NextFsFault]_vars

\* C1: after a power loss and a remount that did not overflow the device,
\* every file that had been written when the last sync completed reads back
\* exactly the bytes it held at that sync, whatever was done after the sync.
C1_SyncedFilesSurviveRemount ==
    (/\ fs_last.op = "remount"
     /\ fs_last.ret = FS_OK
     /\ ~snap.overflow) =>
        \A p \in SnapPaths :
            snap.files[p].r > 0 => ReadBack(Machine, p) = snap.files[p]

\* C2: when power is lost before a sync has written its checkpoint (between
\* calls, or inside fs_sync after some of its NAT and SIT blocks were
\* written), the remount sees the NAT, the SIT and the free-block count of
\* the last checkpoint that was completed.
C2_CrashBeforeCommitRollsBack ==
    (/\ fs_last.op \in {"remount", "sync_crash"}
     /\ ~fs_last.committed
     /\ fs_last.ret = FS_OK) =>
        /\ fs.nat = snap.nat
        /\ fs.sit = snap.sit
        /\ fs.free_blocks_count = snap.free

\* C8: an open allocates an inode or adds a directory entry only when O_CREAT
\* is set and the lookup of the last path component returned "not found".
C8_CreateOnlyAtLastComponent ==
    (fs_last.op = "open" /\ fs_last.created) =>
        /\ fs_last.creat
        /\ fs_last.lookup_r = FS_ERR_NOT_FOUND
        /\ ~fs_last.more

C10_BackendFailurePropagated ==
    fs_last.io # 0 => fs_last.ret = fs_last.io

\* C11: at a mount that reaches the checkpoint slots (the superblock, the NAT
\* and the SIT are readable throughout this specification), when exactly one
\* slot fails validation fs_mount returns FS_OK with the other slot active,
\* and when both fail it returns FS_ERR_CORRUPTED.
C11_MountPrefersValidSlot ==
    fs_last.op = "remount" =>
        /\ (fs_last.ra # FS_OK /\ fs_last.rb = FS_OK) =>
               (fs_last.ret = FS_OK /\ fs.active_cp = 1)
        /\ (fs_last.ra = FS_OK /\ fs_last.rb # FS_OK) =>
               (fs_last.ret = FS_OK /\ fs.active_cp = 0)
        /\ (fs_last.ra # FS_OK /\ fs_last.rb # FS_OK) =>
               fs_last.ret = FS_ERR_CORRUPTED

\* slot 0, the slot fs_format made active, lost its image and the mount runs
\* on slot 1
C11_Witness ==
    /\ fs_last.op = "remount"
    /\ dev[FS_CP0_BLOCK] = ZeroBlock
    /\ fs_last.ra = FS_ERR_CORRUPTED
    /\ fs_last.rb = FS_OK
    /\ fs_last.ret = FS_OK
    /\ fs.active_cp = 1

\* C12: seteuid(target) is permitted iff target equals the context's real uid
\* or the current euid is root, and setegid(target) is permitted iff target
\* equals the context's real gid or the current euid is root.
C12_SetIdPermittedIffDropOrRoot ==
    /\ perm_last.op = "seteuid" =>
          (perm_last.ret <=> (perm_last.a = perm_last.ctx.uid \/ perm_last.ctx.euid = UID_ROOT))
    /\ perm_last.op = "setegid" =>
          (perm_last.ret <=> (perm_last.a = perm_last.ctx.gid \/ perm_last.ctx.euid = UID_ROOT))

\* the mode bits of the first applicable group: owner, else group, else other
ApplicableBits(ctx, res) ==
    IF ctx.euid = res.owner_uid THEN (res.perms \div 64) % 8
    ELSE IF ctx.egid = res.owner_gid THEN (res.perms \div 8) % 8
    ELSE res.perms % 8

HasBit(bits, perm) == (bits \div perm) % 2 = 1

\* C13: the access check allows when euid is 0; otherwise it decides from the
\* bits of the first applicable group only (owner when euid is the owner, else
\* group when egid is the resource's group, else other): a request for one of
\* Read, Write, Exec is allowed iff that bit is set there, a request is denied
\* when none of its bits is set there and allowed when all of them are.  A
\* context of uid 1000 asking Read on a resource of owner 0, group 0 is denied
\* under mode 0600 and allowed under mode 0644.
C13_AccessCheckFirstApplicableGroup ==
    perm_last.op = "check" =>
        LET ctx  == perm_last.ctx
            res  == perm_last.res
            bits == ApplicableBits(perm_last.ctx, perm_last.res)
            asked == {p \in {PERM_READ, PERM_WRITE, PERM_EXEC} : HasBit(perm_last.a, p)}
        IN  /\ ctx.euid = 0 => perm_last.ret
            /\ ctx.euid # 0 =>
                  /\ (\A p \in asked : HasBit(bits, p)) => perm_last.ret
                  /\ (\A p \in asked : ~HasBit(bits, p)) => ~perm_last.ret
            /\ (ctx.uid = 1000 /\ ctx.euid = 1000 /\ res.owner_uid = 0 /\ res.owner_gid = 0
                  /\ perm_last.a = PERM_READ) =>
                  /\ res.perms = 384 => ~perm_last.ret
                  /\ res.perms = 420 => perm_last.ret

C13_Witness ==
    /\ perm_last.op = "check" /\ perm_last.a = PERM_READ /\ ~perm_last.ret
    /\ perm_last.ctx.uid = 1000 /\ perm_last.ctx.euid = 1000
    /\ perm_last.res.owner_uid = 0 /\ perm_last.res.owner_gid = 0
    /\ perm_last.res.perms = 384

\* C14: chmod is permitted iff the caller (the identity the access check goes
\* by, the effective uid) is the resource's owner or root, chown is permitted
\* iff the caller is root, and a denied call leaves the resource's mode and
\* ownership unchanged.
C14_ChmodOwnerOrRootChownRoot ==
    /\ perm_last.op = "chmod" =>
          /\ perm_last.ret <=> (perm_last.ctx.euid = perm_last.res.owner_uid
                                   \/ perm_last.ctx.euid = UID_ROOT)
          /\ ~perm_last.ret => resource = perm_last.res
    /\ perm_last.op = "chown" =>
          /\ perm_last.ret <=> perm_last.ctx.euid = UID_ROOT
          /\ ~perm_last.ret => resource = perm_last.res

C16_LoopExitsWithin110ms ==
    sup.stop_pc # "idle" =>
        /\ ~sup.exited => /\ Le32(Sub32(now, sup.stop_at), U32(110))
                          /\ sup.pc # "reset"
        /\ sup.exited => Le32(Sub32(sup.exited_at, sup.stop_at), U32(110))
        /\ sup.pc = "body" => sup.stopped_in = "body"
        /\ sup.pc = "feed" => sup.stopped_in \in {"body", "feed"}

C16_Witness ==
    /\ sup.exited
    /\ sup.stopped_in = "body"
    /\ Sub32(sup.exited_at, sup.stop_at) = U32(10)

\* a health check runs in this step
HealthCheckStep == sup'.last_check_time # sup.last_check_time

\* C17: whenever memory_check_collision() is true (stack pointer <= interpreter
\* bump pointer) the kernel keeps running (the supervisor loop still takes its
\* step), and a health check made while it is true reports the collision in
\* the health flags.
C17_CollisionReportedByHealthCheck ==
    [][(HealthCheckStep /\ memory_check_collision = 1)
          => "STACK_OVERFLOW" \in metrics'.health_flags]_vars

\* count * size does not fit the 32-bit machine word
MulOverflows32(a, b) ==
    LET Small(x, y) ==   \* x any word, y < 2^16
          \/ (x[1] # 0 /\ y > 65535 \div x[1])
          \/ x[1] * y + (((x[2] \div 256) * y + (((x[2] % 256) * y) \div 256)) \div 256)
                >= W16
    IN  IF a[1] # 0 /\ b[1] # 0 THEN TRUE
        ELSE IF b[1] = 0 THEN Small(a, b[2])
        ELSE Small(b, a[2])

\* C18: kernel_calloc(count, size) and interpreter_calloc(count, size) return
\* null whenever the product count * size overflows the machine word.
C18_CallocOverflowReturnsNull ==
    (mem_last.op \in {"kernel_calloc", "interpreter_calloc"}
     /\ MulOverflows32(mem_last.args[1], mem_last.args[2]))
    => mem_last.ret = NULL32

\* an allocator call is made in this step
MallocStep(op) == mem_ops' # mem_ops /\ mem_last'.op = op

\* C19: an allocation (kernel_malloc, interpreter_malloc) whose advance would
\* cross the region end, the request being larger than what is left between
\* the bump pointer and the end, returns null and leaves the bump pointer,
\* used bytes, peak bytes and allocation count of both regions unchanged.
C19_FailedAllocationMutatesNothing ==
    [][/\ (MallocStep("kernel_malloc")
           /\ Le32(kernel_heap.current, KERNEL_HEAP_END)
           /\ Gt32(mem_last'.size, Sub32(KERNEL_HEAP_END, kernel_heap.current)))
          => (/\ mem_last'.ret = NULL32
              /\ kernel_heap' = kernel_heap
              /\ interpreter_heap' = interpreter_heap)
       /\ (MallocStep("interpreter_malloc")
           /\ Le32(interpreter_heap.current, INTERPRETER_HEAP_END)
           /\ Gt32(mem_last'.size, Sub32(INTERPRETER_HEAP_END, interpreter_heap.current)))
          => (/\ mem_last'.ret = NULL32
              /\ kernel_heap' = kernel_heap
              /\ interpreter_heap' = interpreter_heap)]_vars

WholeRegionGranted(res) ==
    /\ res.ptr = INTERPRETER_HEAP_BASE
    /\ res.heap.current = INTERPRETER_HEAP_END
    /\ res.heap.used_size = INTERPRETER_HEAP_SIZE

\* C21: right after interpreter_heap_reset() the used bytes are 0 and the bump
\* pointer is at the region base, and an allocation of the whole region
\* (65536 bytes, and likewise of exactly interpreter_heap_remaining()) succeeds
\* at the base and ends at the region end, whatever was allocated before
C21_ResetGivesBackWholeRegion ==
    mem_last.op = "interpreter_heap_reset" =>
        /\ interpreter_heap.used_size = U32(0)
        /\ interpreter_heap.current = INTERPRETER_HEAP_BASE
        /\ interpreter_heap_remaining = INTERPRETER_HEAP_SIZE
        /\ \A ub \in BOOLEAN :
              /\ WholeRegionGranted(interpreter_malloc(INTERPRETER_HEAP_SIZE, ub))
              /\ WholeRegionGranted(interpreter_malloc(interpreter_heap_remaining, ub))

\* the reset came when the region had been filled to its last byte
C21_Witness ==
    /\ mem_last.op = "interpreter_heap_reset"
    /\ interpreter_heap.peak_size = INTERPRETER_HEAP_SIZE
    /\ interpreter_heap.current = INTERPRETER_HEAP_BASE

\* inode images with a valid inode number: a file with bytes and a mapped
\* block, the root directory re-stored, the last inode number of the table
InodeSamples ==
    { [Inode(1, FS_MODE_REG, 1, FS_ROOT_INODE, FS_INVALID_BLOCK) EXCEPT
          !.size = 700, !.direct[0] = TotalBlocks - 1],
      [Inode(FS_ROOT_INODE, FS_MODE_DIR, 2, FS_ROOT_INODE, FS_INVALID_BLOCK) EXCEPT
          !.size = 24],
      Inode(Formatted.fs.sb.total_inodes - 1, FS_MODE_DIR, 2, 1, FS_INVALID_BLOCK) }

\* fs_load_inode(ino) on machine state m succeeds and returns the image x
LoadsAs(m, ino, x) ==
    LET Loaded(ld) == ld.r = FS_OK /\ ld.ino = x
    IN  Loaded(fs_load_inode(m, ino))

\* fs_load_inode(x.inode_num) right after a successful fs_store_inode(x)
StoreThenLoad(x) ==
    LET Stored(st) == st.r = FS_OK => LoadsAs(st.m, x.inode_num, x)
    IN  Stored(fs_store_inode(Machine, x))

\* C22: in every reachable state of the mounted file system, every inode
\* number that fs_store_inode has stored loads, with FS_OK, as the image it
\* was last stored with, whatever other inodes were stored and whatever
\* file blocks were written since; and for every image x with a valid inode
\* number a successful fs_store_inode(x) is followed by a load equal to x
C22_StoreLoadRoundTrip ==
    /\ \A i \in DOMAIN shadow.ino : LoadsAs(Machine, i, shadow.ino[i])
    /\ \A x \in InodeSamples : StoreThenLoad(x)

\* both files and the root directory have been stored, the first file with
\* ten mapped blocks, and another inode was stored after it
C22_Witness ==
    /\ DOMAIN shadow.ino = {1, FS_ROOT_INODE, 3}
    /\ shadow.ino[1].size = FS_DIRECT_BLOCKS * FS_BLOCK_SIZE
    /\ shadow.ino[3].size > 0
    /\ fs_last.op = "write" /\ fs_last.path = PathB

\* the device with the checkpoint_num counter of both checkpoint slots
\* blanked
ModuloCheckpointNum(device) ==
    [b \in DOMAIN device |->
        IF device[b].kind = "cp"
        THEN [device[b] EXCEPT !.cp.checkpoint_num = 0]
        ELSE device[b]]

\* the step is a successful fs_sync that follows a successful fs_sync with
\* no call in between
SecondSyncStep ==
    /\ fs_last.op = "sync" /\ fs_last.ret = FS_OK
    /\ fs_ops' = fs_ops + 1
    /\ fs_last'.op = "sync" /\ fs_last'.ret = FS_OK

\* C23: a second fs_sync that directly follows a successful fs_sync leaves
\* the device, the checkpoint_num counters apart, byte for byte as the first
\* fs_sync left it
C23_SecondSyncLeavesDeviceIdentical ==
    [][SecondSyncStep => ModuloCheckpointNum(dev') = ModuloCheckpointNum(dev)]_vars

\* t clamped into [WATCHDOG_TIMEOUT_MIN_MS, WATCHDOG_TIMEOUT_MAX_MS]
Clamped(t) ==
    IF Lt32(t, U32(WATCHDOG_TIMEOUT_MIN_MS)) THEN U32(WATCHDOG_TIMEOUT_MIN_MS)
    ELSE IF Gt32(t, U32(WATCHDOG_TIMEOUT_MAX_MS)) THEN U32(WATCHDOG_TIMEOUT_MAX_MS)
    ELSE t

\* C24: after wdt_init(t) the recorded timeout is t clamped into
\* [1 ms, 8388 ms]; after wdt_enable(t) the recorded timeout and the timeout
\* of the hardware countdown are t clamped, the countdown runs and the
\* facade is enabled; for every requested t
C24_TimeoutClampedAndEnabled ==
    /\ core0.call.op = "wdt_init" =>
          wdt_state.timeout_ms = Clamped(core0.call.t)
    /\ core0.call.op = "wdt_enable" =>
          /\ wdt_state.timeout_ms = Clamped(core0.call.t)
          /\ wdt_state.enabled
          /\ hw_wdt.running /\ hw_wdt.timeout = Clamped(core0.call.t)

\* C25: after a disable() that was called while the facade was enabled, the
\* facade is marked disabled and the hardware countdown runs with the
\* maximum timeout, 8388 ms
C25_DisableSetsMaximumTimeout ==
    (core0.call.op \in {"wdt_disable", "watchdog_disable"} /\ core0.call.was_enabled) =>
        /\ ~wdt_state.enabled
        /\ hw_wdt.timeout = U32(WATCHDOG_TIMEOUT_MAX_MS)

\* C26: with a non-zero execution timeout T, whenever sage_eval_string
\* reaches a statement boundary (a call of sage_check_timeout) at which T ms
\* or more have elapsed since it started, it returns SAGE_ERROR_TIMEOUT there
\* and starts no further statement; a statement is parsed or interpreted only
\* when the boundary before it saw less than T ms elapsed
C26_TimeoutCancelsAtStatementBoundary ==
    /\ (/\ sage.checks > 0
        /\ sage.max_execution_time_ms # U32(0)
        /\ Ge32(sage.elapsed, sage.max_execution_time_ms)) =>
            /\ sage.pc = "done"
            /\ sage.ret = SAGE_ERROR_TIMEOUT
            /\ sage.statement_count = sage.count_at_check
    /\ sage.pc \in {"parsing", "parsed", "interpreting", "interpreted"} =>
            /\ sage.checks > 0
            /\ \/ sage.max_execution_time_ms = U32(0)
               \/ Lt32(sage.elapsed, sage.max_execution_time_ms)

\* the timeout of 1000 ms elapsed exactly while the first of two statements
\* ran; the evaluation returned the timeout error with the second unstarted
C26_Witness ==
    /\ sage.pc = "done"
    /\ sage.ret = SAGE_ERROR_TIMEOUT
    /\ sage.max_execution_time_ms = U32(1000)
    /\ sage.elapsed = U32(1000)
    /\ sage.statement_count = 1
    /\ sage.left = 1

ValidKey(key) == Len(key) > 0 /\ Len(key) < CONFIG_MAX_KEY_LEN
ValidValue(value) == Len(value) < CONFIG_MAX_VALUE_LEN

\* config_get(k) with a buffer that holds any valid value yields v
GetYields(key, value) ==
    config_get(cfg, key, CONFIG_MAX_VALUE_LEN) = [ret |-> CONFIG_OK, value |-> value]

\* for every valid key k and value v, after config_set(k, v); config_save();
\* config_load(), config_get(k) yields v, whatever keys were set before
C27_SetSaveLoadGetYieldsValue ==
    (/\ cfg.track.stage = "loaded"
     /\ ValidKey(cfg.track.key)
     /\ ValidValue(cfg.track.value)) => GetYields(cfg.track.key, cfg.track.value)

\* C27: for every valid key k and value v, whatever keys were set or deleted
\* before: when config_set(k, v) returns CONFIG_OK, then after config_save();
\* config_load(), config_get(k) yields v; config_set returns CONFIG_OK unless
\* k is not in the table and all CONFIG_MAX_ENTRIES entries are used
C27_AcceptedSetSaveLoadGetYieldsValue ==
    /\ (cfg.track.stage = "loaded" /\ cfg.track.ret = CONFIG_OK) =>
            GetYields(cfg.track.key, cfg.track.value)
    /\ (/\ cfg.track.stage = "set"
        /\ ValidKey(cfg.track.key)
        /\ ValidValue(cfg.track.value)
        /\ cfg.track.ret # CONFIG_OK) =>
            /\ cfg.track.ret = CONFIG_ERROR_FULL
            /\ cfg.config_data.entry_count = CONFIG_MAX_ENTRIES
            /\ config_find(cfg.config_data.entries, cfg.track.key, 1) = 0

\* the key went into the last entry of a table other keys fill, past the
\* erased sector, was saved and loaded back
C27_Witness ==
    /\ cfg.track.stage = "loaded"
    /\ cfg.track.ret = CONFIG_OK
    /\ cfg.track.load_ret
    /\ cfg.track.value # <<>>
    /\ cfg.config_data.entry_count = CONFIG_MAX_ENTRIES
    /\ config_find(cfg.config_data.entries, cfg.track.key, 1) = CONFIG_MAX_ENTRIES

\* the machine fs_format leaves
FreshlyFormatted ==
    fs_format([dev |-> [b \in 0..(TotalBlocks - 1) |-> ZeroBlock],
               fs |-> FsZero, faulty |-> {}, io |-> 0, budget |-> -1,
               stored |-> <<>>],
              TotalBlocks).m

CpBlock(which) == IF which = 0 THEN FS_CP0_BLOCK ELSE FS_CP1_BLOCK

\* the active slot validates on the device, holds there the checkpoint_num
\* the filesystem has for it, and the other slot does not validate or holds
\* a lower checkpoint_num
ActiveSlotIsNewest(device, f) ==
    /\ f.active_cp \in {0, 1}
    /\ SlotValidates(device, f.active_cp)
    /\ device[CpBlock(f.active_cp)].cp.checkpoint_num =
           (IF f.active_cp = 0 THEN f.cp0 ELSE f.cp1).checkpoint_num
    /\ SlotValidates(device, 1 - f.active_cp) =>
           device[CpBlock(f.active_cp)].cp.checkpoint_num >
               device[CpBlock(1 - f.active_cp)].cp.checkpoint_num

\* a step of fs_sync that returns FS_OK
SyncStep ==
    /\ g_fs_mounted
    /\ fs_ops' = fs_ops + 1
    /\ fs_last'.op = "sync" /\ fs_last'.ret = FS_OK

\* C28: after fs_format, and after every open, write, fs_sync, power loss
\* and mount that follows, the active checkpoint slot is the slot that
\* validates on the device with the higher checkpoint_num; every fs_sync that
\* returns FS_OK makes the slot that was inactive the active one, with a
\* checkpoint_num one greater than that of the slot active before
C28_ActiveSlotIsNewestValid ==
    /\ ActiveSlotIsNewest(FreshlyFormatted.dev, FreshlyFormatted.fs)
    /\ g_fs_mounted => ActiveSlotIsNewest(dev, fs)
    /\ [][/\ g_fs_mounted' => ActiveSlotIsNewest(dev', fs')
          /\ SyncStep =>
                /\ fs'.active_cp = 1 - fs.active_cp
                /\ dev'[CpBlock(fs'.active_cp)].cp.checkpoint_num =
                       dev[CpBlock(fs.active_cp)].cp.checkpoint_num + 1]_vars

\* two fs_sync calls after the mount, the second a step back to slot 1
C28_Witness ==
    /\ fs_last.op = "sync" /\ fs_last.ret = FS_OK
    /\ g_fs_mounted
    /\ fs.active_cp = 1
    /\ dev[FS_CP0_BLOCK].cp.checkpoint_num = 3
    /\ dev[FS_CP1_BLOCK].cp.checkpoint_num = 4
    /\ fs.free_blocks_count # FreshlyFormatted.fs.free_blocks_count

\* the lookup of a path finds inode id ino
LooksUp(x, ino) == x.r = FS_OK /\ x.ino = ino

\* C29: after fs_open with FS_O_CREAT and fs_mkdir calls that returned FS_OK
\* and added distinct names to the root directory, the lookup of every name
\* added succeeds and returns the inode id the name was created with
C29_AddedNamesStayFound ==
    Cardinality(DOMAIN shadow.added) = fs_ops =>
        \A p \in DOMAIN shadow.added :
            LooksUp(fs_resolve_path(Machine, p), shadow.added[p])

\* C30: under every interleaving of the statements of supervisor_heartbeat
\* on core 0 with those of check_system_health on core 1: a feed age that
\* comes out above RESYNC_THRESHOLD_MS does not raise the WATCHDOG flag, and
\* a heartbeat age that does is resynchronised and does not raise the
\* CORE0_HUNG flag
C30_ImplausibleAgeRaisesNoFlag ==
    (hc.pc1 = "idle" /\ hc.checks > 0) =>
        /\ Gt32(hc.time_since_feed, RESYNC_THRESHOLD_MS) =>
               "WATCHDOG" \notin metrics.health_flags
        /\ Gt32(hc.raw_age, RESYNC_THRESHOLD_MS) =>
               hc.resync /\ "CORE0_HUNG" \notin metrics.health_flags

\* C31: no step of core 0 changes a field of the metrics record: every
\* field is written by the supervisor loop on core 1 only, so that no field
\* is written from both cores
C31_MetricsWrittenByCore1Only ==
    [][\A f \in DOMAIN metrics :
          metrics'[f] # metrics[f] => hc'.pc0 = hc.pc0]_vars

\* block blk is counted valid in the SIT of f: its offset within its segment
\* is below the segment's valid count
CountedValid(f, blk) ==
    /\ blk < f.sb.total_blocks
    /\ blk % FS_BLOCKS_PER_SEGMENT < f.sit[blk \div FS_BLOCKS_PER_SEGMENT]

\* the blocks the NAT entries of f name
NatBlocks(f) ==
    {f.nat[i].block_addr : i \in DOMAIN f.nat} \ {FS_INVALID_BLOCK}

\* the blocks the direct pointers of the inodes the NAT names point at
DirectBlocks(device, f) ==
    UNION {{device[b].ino.direct[k] : k \in 0..(FS_DIRECT_BLOCKS - 1)} :
             b \in {x \in NatBlocks(f) \cap DOMAIN device :
                      device[x].kind = "inode"}}
        \ {0, FS_INVALID_BLOCK}

ReferencedBlocks(device, f) == NatBlocks(f) \cup DirectBlocks(device, f)

\* C32: after format and after every file-system call, every block below
\* main_start_block and every block a NAT entry or an inode's direct pointer
\* names is counted valid in the SIT, and the free-block scan does not
\* return a block that is referenced
C32_ReferencedBlocksCountedValid ==
    g_fs_mounted =>
        /\ \A b \in 0..(fs.sb.main_start_block - 1) : CountedValid(fs, b)
        /\ \A b \in ReferencedBlocks(dev, fs) : CountedValid(fs, b)
        /\ fs_find_first_free_data_block(fs) \notin ReferencedBlocks(dev, fs)

\* what a successful fs_store_inode(x) on the present state did: the block
\* the NAT entry names afterwards holds the image and was not counted valid
\* before, it is not the block the entry named before, and the entry's
\* version (uint16_t) is one more
StoresToFreshBlock(x) ==
    LET Stored(st, blk) ==
            /\ st.m.dev[blk] = [kind |-> "inode", ino |-> x]
            /\ ~CountedValid(fs, blk)
            /\ blk # NatGet(fs.nat, x.inode_num).block_addr
            /\ NatGet(st.m.fs.nat, x.inode_num).version =
                   (NatGet(fs.nat, x.inode_num).version + 1) % 65536
        Returned(st) ==
            st.r = FS_OK =>
                Stored(st, NatGet(st.m.fs.nat, x.inode_num).block_addr)
    IN  Returned(fs_store_inode(Machine, x))

\* C33: in every reachable state of the mounted file system, a successful
\* fs_store_inode writes the inode to a block that was not counted valid
\* before the call and is not the block nat[id] named before the call, and
\* increments nat[id].version by one
C33_StoreInodeIsLogStructured ==
    g_fs_mounted => \A x \in InodeSamples : StoresToFreshBlock(x)

\* how many entries of a ready queue hold task_id
QueueCount(queue, task_id) ==
    Cardinality({k \in 1..Len(queue.tasks) : queue.tasks[k] = task_id})

\* C34: after every sequence of task_create, task_terminate, task_suspend
\* and task_resume calls, every live descriptor is absent from both ready
\* queues, or is once in the queue of its affinity (core 0's for 0, core 1's
\* for 1, one of the two for any) and not in the other core's queue
C34_QueueMatchesAffinity ==
    \A i \in 1..task_count :
        LET Placed(n0, n1, core) ==
                \/ n0 = 0 /\ n1 = 0
                \/ core = 0 /\ n0 = 1 /\ n1 = 0
                \/ core = 1 /\ n0 = 0 /\ n1 = 1
                \/ core = 2 /\ n0 + n1 = 1
        IN  Placed(QueueCount(core0_queue, task_table[i].task_id),
                   QueueCount(core1_queue, task_table[i].task_id),
                   task_table[i].core_affinity)

\* the sum of the SIT valid counts of f
RECURSIVE SitSum(_, _)
SitSum(f, seg) ==
    IF seg >= f.sb.total_segments THEN 0
    ELSE f.sit[seg] + SitSum(f, seg + 1)

\* free_blocks_count is total_blocks minus the blocks counted valid
FreeMatchesSit(f) ==
    /\ SitSum(f, 0) <= f.sb.total_blocks
    /\ f.free_blocks_count = U32(f.sb.total_blocks - SitSum(f, 0))

\* the step is a call other than a mount, or the mount that follows a
\* completed fs_sync
CountKeepingStep ==
    \/ fs_last'.op # "remount" /\ fs_last'.op # "sync_crash"
    \/ fs_last.op = "sync" /\ fs_last.ret = FS_OK

\* C35: after format and after every file-system call, and after a sync
\* followed by a remount, free_blocks_count is total_blocks minus the sum of
\* the SIT valid counts (so it has not wrapped below zero), and no such step
\* increases it
C35_FreeCountMatchesSit ==
    /\ [](g_fs_mounted => FreeMatchesSit(fs))
    /\ [][CountKeepingStep =>
              Le32(fs'.free_blocks_count, fs.free_blocks_count)]_vars

\* C36: for a context whose effective uid is not root, perm_check allows a
\* request that combines several of Read, Write and Exec only if every
\* requested bit is set in the applicable mode group; Read|Write against
\* applicable bits that grant Read only is denied
C36_EveryRequestedBitRequired ==
    (perm_last.op = "check" /\ perm_last.ctx.euid # UID_ROOT) =>
        LET bits == ApplicableBits(perm_last.ctx, perm_last.res)
            asked == {p \in {PERM_READ, PERM_WRITE, PERM_EXEC} :
                        HasBit(perm_last.a, p)}
        IN  /\ perm_last.ret => \A p \in asked : HasBit(bits, p)
            /\ (perm_last.a = PERM_READ + PERM_WRITE /\ bits = PERM_READ)
                   => ~perm_last.ret

\* C37: every byte of a file within [0, size) that no write has covered
\* reads back as zero: after the first write to a file, made at position
\* pos, the file reads back as pos zero bytes followed by the bytes
\* written, whether pos lies in the block the write allocated or beyond a
\* block that was never allocated
C37_UnwrittenBytesReadZero ==
    (/\ fs_last.op = "write" /\ fs_last.ret = fs_last.count
     /\ fs_last.path \in DOMAIN shadow.b
     /\ shadow.b[fs_last.path].seq = fs_ops - 1) =>
        ReadBack(Machine, fs_last.path) =
            [r |-> fs_last.pos + fs_last.count,
             data |-> RCat(RFill(fs_last.pos, 0), shadow.b[fs_last.path].b)]

\* C38: supervisor_is_running() returns true only while the supervisor loop
\* is executing on core 1: whenever supervisor_running is set, core 1 is at
\* a point of supervisor_loop (its sleep, its loop test, its health check or
\* its watchdog feed), whatever has reset or reused core 1
C38_RunningFlagMeansLoopRuns ==
    sup.supervisor_running => sup.pc \in {"sleep", "test", "body", "feed"}

C40_HeapUsedWithinManagedHeap ==
    metrics.heap_allocations + metrics.heap_frees > 0 =>
        /\ Le32(metrics.heap_used_bytes, U32(65536))
        /\ Le32(metrics.heap_free_bytes, U32(65536))
        /\ Add32(metrics.heap_used_bytes, metrics.heap_free_bytes) = U32(65536)

\* C7: for every sequence of kernel and interpreter allocations (plain and
\* zeroed, arbitrary sizes, interleaved with interpreter_reset) each region's
\* used byte count never exceeds its total size and each bump pointer stays
\* within [region base, region end].
C7_RegionBounds ==
    /\ Le32(kernel_heap.used_size, KERNEL_HEAP_SIZE)
    /\ Le32(interpreter_heap.used_size, INTERPRETER_HEAP_SIZE)
    /\ Ge32(kernel_heap.current, KERNEL_HEAP_BASE)
    /\ Le32(kernel_heap.current, KERNEL_HEAP_END)
    /\ Ge32(interpreter_heap.current, INTERPRETER_HEAP_BASE)
    /\ Le32(interpreter_heap.current, INTERPRETER_HEAP_END)

\* C3: every id returned by a successful task_create is non-zero and differs
\* from the id of every other task that is live at that moment (the new
\* descriptor is the only one in the table carrying the returned id).
C3_CreateIdsUnique ==
    (sched_last.op = "task_create" /\ sched_last.ret # INVALID_TASK_ID) =>
        /\ sched_last.ret # 0
        /\ Cardinality({i \in 1..task_count :
                           task_table[i].task_id = sched_last.ret}) = 1

\* the queue positions holding a Ready-or-Running task
Runnable(queue) ==
    {i \in 1..Len(queue.tasks) :
        \E k \in 1..task_count :
            /\ task_table[k].task_id = queue.tasks[i]
            /\ task_table[k].state \in {"READY", "RUNNING"}}

PriorityAt(queue, i) ==
    task_table[find_task_index(queue.tasks[i])].priority

\* the id the selection rule names: maximum priority, earliest in queue order
\* among equals, 0 when no entry is Ready or Running
HighestRunnable(queue) ==
    IF Runnable(queue) = {} THEN 0
    ELSE queue.tasks[CHOOSE i \in Runnable(queue) :
            \A j \in Runnable(queue) :
                \/ PriorityAt(queue, j) < PriorityAt(queue, i)
                \/ (PriorityAt(queue, j) = PriorityAt(queue, i) /\ i <= j)]

\* C4: scheduler_next_task_core0 / _core1 returns the id of the
\* Ready-or-Running task of maximum priority in that core's queue, the
\* earliest in queue order among equal priorities, and 0 only when the queue
\* holds no Ready-or-Running task.
C4_NextTaskIsHighestRunnable ==
    /\ sched_last.op = "next_task_core0" =>
          sched_last.ret = HighestRunnable(core0_queue)
    /\ sched_last.op = "next_task_core1" =>
          sched_last.ret = HighestRunnable(core1_queue)

\* C5: whenever the watchdog is Enabled and core 0 has been hung for longer
\* than the configured timeout, also while the supervisor loop keeps running
\* on core 1, the watchdog has reset the chip.
C5_HangLeadsToReset ==
    (/\ wdt_state.enabled
     /\ core0.hung
     /\ Gt32(Sub32(now, core0.hang_since), wdt_state.timeout_ms))
    => reset

\* a health check has just run and computed a heartbeat age above 5 s
CheckedWithStaleHeartbeat ==
    /\ sup_last.checked
    /\ Gt32(sup_last.time_since_heartbeat, U32(5000))

\* C6 as stated: at every health check at which the core-0 heartbeat age
\* exceeds 5 s the metrics show CORE0_HUNG set, health == Critical and
\* core0_responsive == false.
C6_StaleHeartbeatIsCritical ==
    CheckedWithStaleHeartbeat =>
        /\ "CORE0_HUNG" \in metrics.health_flags
        /\ metrics.health_status = HEALTH_CRITICAL
        /\ ~metrics.core0_responsive

\* C6 amended: at every health check at which the core-0 heartbeat age
\* exceeds 5 s without exceeding the 1000000000 ms resync threshold, the
\* metrics show CORE0_HUNG set and core0_responsive == false, and health is
\* Critical unless the temperature read at that check is above 80 C, when it
\* is Emergency.
C6_StaleHeartbeatIsFlagged ==
    (CheckedWithStaleHeartbeat
     /\ Le32(sup_last.time_since_heartbeat, <<15258, 51712>>)) =>
        /\ "CORE0_HUNG" \in metrics.health_flags
        /\ ~metrics.core0_responsive
        /\ metrics.health_status =
              IF metrics.temp_celsius > 80 THEN HEALTH_EMERGENCY
              ELSE HEALTH_CRITICAL

C6_Witness ==
    /\ CheckedWithStaleHeartbeat
    /\ core0.hung
    /\ "CORE0_HUNG" \in metrics.health_flags
    /\ metrics.health_status = HEALTH_CRITICAL

====
